---- MODULE Spec2Model ----
(***************************************************************************)
(* A model of reredis: the RESP codec (src/src/parser.rs, encode_resp in   *)
(* src/src/commands.rs), the command model and dispatcher                  *)
(* (src/src/commands.rs), the keyspace with TTL (src/src/storage.rs) and   *)
(* the session loop and sweeper (src/src/main.rs).                         *)
(*                                                                         *)
(* Representation.  A Rust String / byte slice is a sequence of one-byte   *)
(* strings ("a", "\r", "\n", ...).  The fixed tail of a long message       *)
(* literal is carried as one element of the sequence (it holds no CR or    *)
(* LF and nothing measures or splits it); the leading "ERR " / "WRONGTYPE" *)
(* bytes, command names, numbers and payloads are spelled byte by byte.    *)
(* Option<T> is a sequence of length at most one: None == <<>>,            *)
(* Some(x) == <<x>>.  Instants are integers (milliseconds).                *)
(* The 64-bit integer width is scaled down to IntBits bits.                *)
(***************************************************************************)
EXTENDS Integers, Sequences, FiniteSets, TLC

VARIABLES
    overflow_checks, \* the build: TRUE = arithmetic overflow panics (debug), FALSE = wraps (release)
    cframe,          \* codec: the frame handed to encode_resp
    cbytes,          \* codec: the byte buffer handed to parse
    cresult,         \* codec: what parse returned
    cprev,           \* codec: what parse returned on the buffer before bytes were appended to it
    cpc,             \* codec: position ("init", "encoded", "parsed", "extended", "idle")
    data,            \* Storage.data: the HashMap<String, Entry> (a function on the present keys)
    now,             \* the monotonic clock Instant::now(), in milliseconds
    items,           \* session: what the client sends, item by item (never changes)
    stream,          \* session: the bytes the client has not yet had read by the server
    accumulated,     \* session: handle_client's accumulation buffer
    written,         \* session: the bytes written to the socket so far
    pc,              \* session: position of handle_client
    errAt,        \* session: length of written after the reply to the first frame
                  \* Command::from_resp rejected, -1 before
    cmd,             \* concurrent sessions: the command each session executes
    cpos,            \* concurrent sessions: each handler's position and locals between keyspace calls
    reply,           \* concurrent sessions: the reply each session wrote (None before)
    data0,           \* concurrent sessions, counters: the keyspace before any command ran
    lastCmd,         \* keyspace run: the command executed last
    lastReply,       \* keyspace run: its reply
    dataNS,          \* keyspace run: the keyspace of the same run with the sweeper never invoked
    lastReplyNS,     \* keyspace run: the reply of the same command in that run
    given,           \* keyspace run: per key, the instant now+t of the expiry last given to it and not overwritten
    prevGiven,       \* keyspace run: given as it was before the command executed last
    held,            \* keyspace run: per key, the value stored by the last SET / SETEX / PSETEX that wrote it,
                     \* while no other command has written the key since
    logical,         \* list / set / hash run: what the key holds by the documented meaning of the commands run
    expected         \* list / set / hash run: the reply that meaning gives the command executed last (None: none)

codecVars == <<cframe, cbytes, cresult, cprev, cpc>>
sessVars  == <<items, stream, accumulated, written, pc, errAt>>
concVars  == <<cmd, cpos, reply, data0>>
runVars   == <<lastCmd, lastReply, dataNS, lastReplyNS, given, prevGiven, held, logical, expected>>
vars == <<overflow_checks, codecVars, data, now, sessVars, concVars, runVars>>

-----------------------------------------------------------------------------
(* Bounds of the model *)

\* the width, in bits, that stands for the 64 bits of i64 / isize / u64 / usize
IntBits == 16
\* longest array drawn for the codec's input frames
MaxArr == 2

I64_MAX == 2^(IntBits - 1) - 1
I64_MIN == -(2^(IntBits - 1))
U64_MAX == 2^IntBits - 1

-----------------------------------------------------------------------------
(* Option, strings, decimal text *)

None == <<>>
Some(x) == <<x>>
IsSome(o) == o # <<>>
Unwrap(o) == o[1]

CR == "\r"
LF == "\n"
CRLF == <<CR, LF>>

Min(a, b) == IF a < b THEN a ELSE b
Max(a, b) == IF a > b THEN a ELSE b

RECURSIVE Concat(_)
Concat(ss) == IF ss = <<>> THEN <<>> ELSE Head(ss) \o Concat(Tail(ss))
Range(f) == {f[i] : i \in DOMAIN f}

\* input[from..] and input[from..to] of Rust (0-based, end exclusive)
SliceFrom(input, from) == SubSeq(input, from + 1, Len(input))
Slice(input, from, to) == SubSeq(input, from + 1, to)

Digits == <<"0", "1", "2", "3", "4", "5", "6", "7", "8", "9">>
IsDigit(c) == \E d \in 1..10 : Digits[d] = c
DigitVal(c) == (CHOOSE d \in 1..10 : Digits[d] = c) - 1

\* i64::to_string / usize::to_string (format!("{}", n))
RECURSIVE NatToString(_)
NatToString(n) ==
    IF n < 10 THEN <<Digits[n + 1]>>
    ELSE NatToString(n \div 10) \o <<Digits[(n % 10) + 1]>>

ToStringAbs(n) ==
    \* faulty variant: the sign is dropped
    IF n < 0 THEN NatToString(-n) ELSE NatToString(n)

to_string(n) == IF n < 0 THEN <<"-">> \o NatToString(-n) ELSE NatToString(n)

\* str::parse::<i64 / isize / u64>: optional sign, at least one digit, every
\* step of the accumulation checked against the type's range [lo, hi]
RECURSIVE from_str_radix(_, _, _, _, _)
from_str_radix(digits, acc, sign, lo, hi) ==
    IF digits = <<>> THEN Some(acc)
    ELSE IF ~IsDigit(Head(digits)) THEN None
    ELSE LET d == DigitVal(Head(digits)) IN
         \* checked_mul(10) then checked_add / checked_sub of the digit
         IF sign = 1 /\ acc > (hi - d) \div 10 THEN None
         ELSE IF sign = -1 /\ -acc > ((-lo) - d) \div 10 THEN None
         ELSE from_str_radix(Tail(digits), acc * 10 + sign * d, sign, lo, hi)

parse_int(s, lo, hi) ==
    IF s = <<>> THEN None
    ELSE IF s = <<"+">> \/ s = <<"-">> THEN None
    ELSE IF Head(s) = "+" THEN from_str_radix(Tail(s), 0, 1, lo, hi)
    ELSE IF Head(s) = "-" /\ lo < 0 THEN from_str_radix(Tail(s), 0, -1, lo, hi)
    ELSE from_str_radix(s, 0, 1, lo, hi)

parse_i64(s) == parse_int(s, I64_MIN, I64_MAX)
parse_u64(s) == parse_int(s, 0, U64_MAX)

\* The byte that is no valid UTF-8 on its own, and what from_utf8_lossy puts
\* in its place (U+FFFD, three bytes).
BadByte == "\\xFF"
Replacement == <<"\\xEF", "\\xBF", "\\xBD">>
from_utf8_ok(bytes) == \A i \in 1..Len(bytes) : bytes[i] # BadByte

RECURSIVE from_utf8_lossy(_)
from_utf8_lossy(bytes) ==
    IF bytes = <<>> THEN <<>>
    ELSE (IF Head(bytes) = BadByte THEN Replacement ELSE <<Head(bytes)>>)
         \o from_utf8_lossy(Tail(bytes))

\* str::to_uppercase (the model's strings are ASCII)
Lower == <<"a", "b", "c", "d", "e", "f", "g", "h", "i", "j", "k", "l", "m", "n", "o", "p", "q", "r", "s", "t", "u", "v", "w", "x", "y", "z">>
Upper == <<"A", "B", "C", "D", "E", "F", "G", "H", "I", "J", "K", "L", "M", "N", "O", "P", "Q", "R", "S", "T", "U", "V", "W", "X", "Y", "Z">>
UpperChar(c) ==
    IF \E i \in 1..Len(Lower) : Lower[i] = c
    THEN Upper[CHOOSE i \in 1..Len(Lower) : Lower[i] = c]
    ELSE c
to_uppercase(s) == [i \in 1..Len(s) |-> UpperChar(s[i])]

-----------------------------------------------------------------------------
(* Resp, the frame type (parser.rs) *)

Simple(s)  == [t |-> "Simple", s |-> s]
Error(s)   == [t |-> "Error", s |-> s]
Integer(n) == [t |-> "Integer", n |-> n]
Bulk(o)    == [t |-> "Bulk", o |-> o]
Array(o)   == [t |-> "Array", a |-> o]

\* encode_resp (commands.rs)
RECURSIVE encode_resp(_)
encode_resp(resp) ==
    CASE resp.t = "Simple"  -> <<"+">> \o resp.s \o CRLF
      [] resp.t = "Error"   -> <<"-">> \o resp.s \o CRLF
      [] resp.t = "Integer" -> <<":">> \o to_string(resp.n) \o CRLF
      [] resp.t = "Bulk"    ->
            IF resp.o = None THEN <<"$", "-", "1">> \o CRLF
            ELSE <<"$">> \o to_string(Len(Unwrap(resp.o))) \o CRLF
                 \o Unwrap(resp.o) \o CRLF
      [] resp.t = "Array"   ->
            IF resp.a = None THEN <<"*", "-", "1">> \o CRLF
            ELSE <<"*">> \o to_string(Len(Unwrap(resp.a))) \o CRLF
                 \o Concat([i \in 1..Len(Unwrap(resp.a)) |-> encode_resp(Unwrap(resp.a)[i])])

-----------------------------------------------------------------------------
(* parse (parser.rs).  A result is Ok((resp, used)), Err(text), or a panic *)
(* of the calling task.                                                    *)

Ok(resp, used) == [k |-> "Ok", resp |-> resp, used |-> used]
Err(e)         == [k |-> "Err", e |-> e]
Panic          == [k |-> "Panic"]

\* read_line: the bytes before the first CR LF, and the count consumed with it
ReadLineShort(input) ==
    \* faulty variant: the terminator is counted as one byte
    LET last == Max(Len(input) - 1, 0)
        hits == {i \in 0..(last - 1) : input[i + 1] = CR /\ input[i + 2] = LF} IN
    IF hits = {} THEN [k |-> "Err", e |-> "no CRLF found"]
    ELSE LET i == CHOOSE h \in hits : \A g \in hits : h <= g IN
         [k |-> "Ok", resp |-> Slice(input, 0, i), used |-> i + 1]

ReadLineLast(input) ==
    \* faulty variant: the line ends at the last CR LF of the buffer
    LET last == Max(Len(input) - 1, 0)
        hits == {i \in 0..(last - 1) : input[i + 1] = CR /\ input[i + 2] = LF} IN
    IF hits = {} THEN [k |-> "Err", e |-> "no CRLF found"]
    ELSE LET i == CHOOSE h \in hits : \A g \in hits : h >= g IN
         [k |-> "Ok", resp |-> Slice(input, 0, i), used |-> i + 2]

read_line(input) ==
    LET last == Max(Len(input) - 1, 0)
        hits == {i \in 0..(last - 1) : input[i + 1] = CR /\ input[i + 2] = LF} IN
    IF hits = {} THEN Err("no CRLF found")
    ELSE LET i == CHOOSE h \in hits : \A g \in hits : h <= g IN
         Ok(Slice(input, 0, i), i + 2)

parse_simple(input) ==
    LET r == read_line(SliceFrom(input, 1)) IN
    IF r.k # "Ok" THEN r
    ELSE IF ~from_utf8_ok(r.resp) THEN Err("utf8")
    ELSE Ok(Simple(r.resp), r.used + 1)

parse_error(input) ==
    LET r == read_line(SliceFrom(input, 1)) IN
    IF r.k # "Ok" THEN r
    ELSE IF ~from_utf8_ok(r.resp) THEN Err("utf8")
    ELSE Ok(Error(r.resp), r.used + 1)

parse_integer(input) ==
    LET r == read_line(SliceFrom(input, 1)) IN
    IF r.k # "Ok" THEN r
    ELSE IF ~from_utf8_ok(r.resp) THEN Err("utf8")
    ELSE LET n == parse_i64(r.resp) IN
         IF n = None THEN Err("parse int") ELSE Ok(Integer(Unwrap(n)), r.used + 1)

\* usize arithmetic of the build: a + b with a, b in 0..U64_MAX
usize_of(len) == IF len < 0 THEN len + U64_MAX + 1 ELSE len
wraps(sum) == sum > U64_MAX
wrapped(sum) == sum % (U64_MAX + 1)

parse_bulk(input) ==
    LET r == read_line(SliceFrom(input, 1)) IN
    IF r.k # "Ok" THEN r
    ELSE IF ~from_utf8_ok(r.resp) THEN Err("utf8")
    ELSE LET len == parse_i64(r.resp) IN
         IF len = None THEN Err("parse len")
         ELSE LET offset == r.used + 1 IN
              IF Unwrap(len) = -1 THEN Ok(Bulk(None), offset)
              ELSE LET start == offset
                       sum   == start + usize_of(Unwrap(len))
                       end   == wrapped(sum)
                       end2  == wrapped(end + 2)
                   IN  IF overflow_checks /\ (wraps(sum) \/ wraps(end + 2)) THEN Panic
                       ELSE IF Len(input) < end2 THEN Err("incomplete bulk")
                       ELSE IF start > end \/ end > Len(input) THEN Panic
                       ELSE Ok(Bulk(Some(from_utf8_lossy(Slice(input, start, end)))), end2)

RECURSIVE parse(_), parse_array_loop(_, _, _, _)

\* the for loop of parse_array: `left` children still to decode from input[total..]
parse_array_loop(input, total, left, acc) ==
    IF left <= 0 THEN Ok(Array(Some(acc)), total)
    ELSE LET r == parse(SliceFrom(input, total)) IN
         IF r.k # "Ok" THEN r
         ELSE parse_array_loop(input, total + r.used, left - 1, Append(acc, r.resp))

parse_array(input) ==
    LET r == read_line(SliceFrom(input, 1)) IN
    IF r.k # "Ok" THEN r
    ELSE IF ~from_utf8_ok(r.resp) THEN Err("utf8")
    ELSE LET len == parse_i64(r.resp) IN
         IF len = None THEN Err("parse len")
         ELSE LET offset == r.used + 1 IN
              IF Unwrap(len) = -1 THEN Ok(Array(None), offset)
              \* Vec::with_capacity(len as usize) with a negative len: capacity overflow
              ELSE IF Unwrap(len) < 0 THEN Panic
              ELSE parse_array_loop(input, offset, Unwrap(len), <<>>)

parse(buff) ==
    IF buff = <<>> THEN Err("empty input")
    ELSE CASE buff[1] = "+" -> parse_simple(buff)
           [] buff[1] = "-" -> parse_error(buff)
           [] buff[1] = ":" -> parse_integer(buff)
           [] buff[1] = "$" -> parse_bulk(buff)
           [] buff[1] = "*" -> parse_array(buff)
           [] OTHER -> Err("unknown type")

-----------------------------------------------------------------------------
(* Value, Entry and Storage (storage.rs).  Every method takes the map d    *)
(* and the instant t it reads from Instant::now(), and runs under the      *)
(* map's RwLock: a method is one atomic step.  A mutating method returns   *)
(* [data |-> the map afterwards, ret |-> its return value].                *)

VString(s) == [t |-> "String", s |-> s]
VList(l)   == [t |-> "List", l |-> l]
VSet(m)    == [t |-> "Set", m |-> m]
VHash(h)   == [t |-> "Hash", h |-> h]

EmptyMap == [x \in {} |-> x]
Insert(d, k, e) == [x \in (DOMAIN d) \cup {k} |-> IF x = k THEN e ELSE d[x]]
Remove(d, k) == [x \in (DOMAIN d) \ {k} |-> d[x]]
Lookup(d, k) == IF k \in DOMAIN d THEN Some(d[k]) ELSE None

ROk(v) == [ok |-> TRUE, v |-> v]
RErr(e) == [ok |-> FALSE, e |-> e]

ERR(tail) == <<"E", "R", "R", " ">> \o tail
WRONGTYPE ==
    <<"W", "R", "O", "N", "G", "T", "Y", "P", "E",
      " Operation against a key holding the wrong kind of value">>

Entry_new(value) == [value |-> value, expires_at |-> None]
Entry_with_expiry(value, duration, t) == [value |-> value, expires_at |-> Some(t + duration)]

IsExpiredStrict(entry, t) ==
    \* faulty variant: the entry is still live at the instant of its expiry
    IF entry.expires_at = None THEN FALSE ELSE t > Unwrap(entry.expires_at)

is_expired(entry, t) ==
    IF entry.expires_at = None THEN FALSE ELSE t >= Unwrap(entry.expires_at)

TtlMsFromEpoch(entry, t) ==
    \* faulty variant: the expiry instant itself is reported, not what is left of it
    IF entry.expires_at = None THEN None
    ELSE IF t >= Unwrap(entry.expires_at) THEN Some(-2)
    ELSE Some(Unwrap(entry.expires_at))

ttl_ms(entry, t) ==
    IF entry.expires_at = None THEN None
    ELSE IF t >= Unwrap(entry.expires_at) THEN Some(-2)
    ELSE Some(Unwrap(entry.expires_at) - t)

\* the entry of key when present and not expired (the `Some(entry) if
\* !entry.is_expired()` arm of the methods), else None
Live(d, key, t) ==
    IF key \in DOMAIN d /\ ~is_expired(d[key], t) THEN Some(d[key]) ELSE None

cleanup_expired(d, t) == [x \in {k \in DOMAIN d : ~is_expired(d[k], t)} |-> d[x]]
run_expiry_cleanup(d, t) == cleanup_expired(d, t)

get(d, key, t) ==
    LET e == Live(d, key, t) IN
    IF e # None /\ Unwrap(e).value.t = "String" THEN Some(Unwrap(e).value.s) ELSE None

get_type(d, key, t) ==
    LET e == Live(d, key, t) IN
    IF e = None THEN None
    ELSE CASE Unwrap(e).value.t = "String" -> Some(<<"s", "t", "r", "i", "n", "g">>)
           [] Unwrap(e).value.t = "List"   -> Some(<<"l", "i", "s", "t">>)
           [] Unwrap(e).value.t = "Set"    -> Some(<<"s", "e", "t">>)
           [] Unwrap(e).value.t = "Hash"   -> Some(<<"h", "a", "s", "h">>)

SetKeepsExpiry(d, key, value) ==
    \* faulty variant: the expiry of the entry overwritten is kept
    IF key \in DOMAIN d THEN [d EXCEPT ![key].value = VString(value)]
    ELSE [x \in (DOMAIN d) \cup {key} |->
             IF x = key THEN Entry_new(VString(value)) ELSE d[x]]

set(d, key, value) == Insert(d, key, Entry_new(VString(value)))

SetExpiresAtOnce(d, key, value, expiry_ms, t) ==
    \* faulty variant: the entry expires at the instant it is written
    Insert(d, key, Entry_with_expiry(VString(value), 0, t))

set_with_expiry(d, key, value, expiry_ms, t) ==
    Insert(d, key, Entry_with_expiry(VString(value), expiry_ms, t))

expire(d, key, expiry_ms, t) ==
    IF key \in DOMAIN d /\ ~is_expired(d[key], t)
    THEN [data |-> [d EXCEPT ![key].expires_at = Some(t + expiry_ms)], ret |-> TRUE]
    ELSE [data |-> d, ret |-> FALSE]

persist(d, key, t) ==
    IF key \in DOMAIN d /\ ~is_expired(d[key], t) /\ d[key].expires_at # None
    THEN [data |-> [d EXCEPT ![key].expires_at = None], ret |-> TRUE]
    ELSE [data |-> d, ret |-> FALSE]

ttl(d, key, t) ==
    LET e == Live(d, key, t) IN
    IF e = None THEN -2
    ELSE LET r == ttl_ms(Unwrap(e), t) IN IF r = None THEN -1 ELSE Unwrap(r)

RECURSIVE del(_, _)
del(d, keys) ==
    IF keys = <<>> THEN [data |-> d, ret |-> 0]
    ELSE LET rest == del(Remove(d, Head(keys)), Tail(keys)) IN
         [data |-> rest.data,
          ret |-> rest.ret + (IF Head(keys) \in DOMAIN d THEN 1 ELSE 0)]

exists(d, keys, t) ==
    Cardinality({i \in 1..Len(keys) : keys[i] \in DOMAIN d /\ ~is_expired(d[keys[i]], t)})

IncrByFromZero(d, key, delta, t) ==
    \* faulty variant: the stored value is not read, the count restarts from 0
    IF delta < I64_MIN \/ delta > I64_MAX
    THEN [data |-> d, ret |-> RErr(ERR(<<"increment or decrement would overflow">>))]
    ELSE [data |-> Insert(d, key, Entry_new(VString(to_string(delta)))), ret |-> ROk(delta)]

IncrByWrapping(d, key, delta, t) ==
    \* faulty variant: wrapping_add in place of checked_add
    LET e == Live(d, key, t)
        n == IF e = None \/ Unwrap(e).value.t # "String" THEN Some(0)
             ELSE parse_i64(Unwrap(e).value.s)
    IN  IF e # None /\ Unwrap(e).value.t # "String" THEN [data |-> d, ret |-> RErr(WRONGTYPE)]
        ELSE IF n = None
        THEN [data |-> d, ret |-> RErr(ERR(<<"value is not an integer or out of range">>))]
        ELSE LET sum == ((Unwrap(n) + delta - I64_MIN) % 2^IntBits) + I64_MIN IN
             [data |-> Insert(d, key, Entry_new(VString(to_string(sum)))), ret |-> ROk(sum)]

incr_by(d, key, delta, t) ==
    LET e == Live(d, key, t)
        current ==
            IF e = None THEN ROk(0)
            ELSE IF Unwrap(e).value.t = "String"
                 THEN LET n == parse_i64(Unwrap(e).value.s) IN
                      IF n = None THEN RErr(ERR(<<"value is not an integer or out of range">>))
                      ELSE ROk(Unwrap(n))
                 ELSE RErr(WRONGTYPE)
    IN  IF ~current.ok THEN [data |-> d, ret |-> current]
        ELSE LET new_value == current.v + delta IN
             IF new_value < I64_MIN \/ new_value > I64_MAX
             THEN [data |-> d, ret |-> RErr(ERR(<<"increment or decrement would overflow">>))]
             ELSE [data |-> Insert(d, key, Entry_new(VString(to_string(new_value)))),
                   ret |-> ROk(new_value)]

incr(d, key, t) == incr_by(d, key, 1, t)

decr(d, key, t) == incr_by(d, key, -1, t)

AppendOverAnyType(d, key, value, t) ==
    \* faulty variant: a value that is not a string is overwritten in place
    LET e == Live(d, key, t) IN
    LET new_value == IF e # None /\ Unwrap(e).value.t = "String"
                     THEN Unwrap(e).value.s \o value ELSE value IN
    [data |-> Insert(d, key, Entry_new(VString(new_value))), ret |-> ROk(Len(new_value))]

append(d, key, value, t) ==
    LET e == Live(d, key, t) IN
    IF e # None /\ Unwrap(e).value.t # "String" THEN [data |-> d, ret |-> RErr(WRONGTYPE)]
    ELSE LET new_value == IF e = None THEN value ELSE Unwrap(e).value.s \o value IN
         [data |-> Insert(d, key, Entry_new(VString(new_value))), ret |-> ROk(Len(new_value))]

strlen(d, key, t) ==
    LET e == Live(d, key, t) IN
    IF e = None THEN ROk(0)
    ELSE IF Unwrap(e).value.t = "String" THEN ROk(Len(Unwrap(e).value.s))
    ELSE RErr(WRONGTYPE)

SetNxSeesExpired(d, key, value, t) ==
    \* faulty variant: an entry past its expiry still counts as present
    IF key \in DOMAIN d THEN [data |-> d, ret |-> FALSE]
    ELSE [data |-> Insert(d, key, Entry_new(VString(value))), ret |-> TRUE]

setnx(d, key, value, t) ==
    IF key \in DOMAIN d /\ ~is_expired(d[key], t) THEN [data |-> d, ret |-> FALSE]
    ELSE [data |-> Insert(d, key, Entry_new(VString(value))), ret |-> TRUE]

GetSetKeepsExpiry(d, key, value, t) ==
    \* faulty variant: the new string inherits the expiry of the entry it replaces
    [data |-> Insert(d, key, [value |-> VString(value),
                              expires_at |-> IF key \in DOMAIN d THEN d[key].expires_at ELSE None]),
     ret |-> get(d, key, t)]

getset(d, key, value, t) ==
    [data |-> Insert(d, key, Entry_new(VString(value))), ret |-> get(d, key, t)]

RECURSIVE MSetKeepsExpiry(_, _)
MSetKeepsExpiry(d, pairs) ==
    \* faulty variant: the entry overwritten keeps its expiry
    IF pairs = <<>> THEN d
    ELSE MSetKeepsExpiry(
             IF Head(pairs)[1] \in DOMAIN d
             THEN [d EXCEPT ![Head(pairs)[1]].value = VString(Head(pairs)[2])]
             ELSE Insert(d, Head(pairs)[1], Entry_new(VString(Head(pairs)[2]))),
             Tail(pairs))

\* the insertions of the loop, under the one write lock
RECURSIVE insert_pairs(_, _)
insert_pairs(d, pairs) ==
    IF pairs = <<>> THEN d
    ELSE insert_pairs(Insert(d, Head(pairs)[1], Entry_new(VString(Head(pairs)[2]))), Tail(pairs))

mset(d, pairs) == insert_pairs(d, pairs)

mget(d, keys, t) == [i \in 1..Len(keys) |-> get(d, keys[i], t)]

\* data.entry(key).or_insert_with(..) followed by the replacement of an
\* expired entry: the entry a list / set / hash writer goes on to mutate
EntryOrFresh(d, key, fresh, t) ==
    IF key \in DOMAIN d /\ ~is_expired(d[key], t) THEN d[key] ELSE Entry_new(fresh)

\* push_front / push_back of each value in argument order
RECURSIVE push_all(_, _, _)
push_all(list, values, front) ==
    IF values = <<>> THEN list
    ELSE push_all(IF front THEN <<Head(values)>> \o list ELSE Append(list, Head(values)),
                  Tail(values), front)

push(d, key, values, front, t) ==
    LET entry == EntryOrFresh(d, key, VList(<<>>), t) IN
    IF entry.value.t = "List"
    THEN LET list == push_all(entry.value.l, values, front) IN
         [data |-> Insert(d, key, [entry EXCEPT !.value = VList(list)]), ret |-> ROk(Len(list))]
    ELSE [data |-> Insert(d, key, entry), ret |-> RErr(WRONGTYPE)]

LPushAsBlock(d, key, values, t) ==
    \* faulty variant: the values go to the head as one block, the first argument first
    push(d, key, [i \in 1..Len(values) |-> values[Len(values) + 1 - i]], TRUE, t)

lpush(d, key, values, t) == push(d, key, values, TRUE, t)
rpush(d, key, values, t) == push(d, key, values, FALSE, t)

llen(d, key, t) ==
    LET e == Live(d, key, t) IN
    IF e = None THEN ROk(0)
    ELSE IF Unwrap(e).value.t = "List" THEN ROk(Len(Unwrap(e).value.l))
    ELSE RErr(WRONGTYPE)

lrange(d, key, start, stop, t) ==
    LET e == Live(d, key, t) IN
    IF e = None THEN ROk(<<>>)
    ELSE IF Unwrap(e).value.t # "List" THEN RErr(WRONGTYPE)
    ELSE LET list == Unwrap(e).value.l
             len == Len(list)
             s == IF start < 0 THEN Max(len + start, 0) ELSE Min(start, len)
             e2 == IF stop < 0 THEN Max(len + stop, 0) ELSE Min(stop, len - 1)
         IN  IF len = 0 THEN ROk(<<>>)
             ELSE IF s > e2 \/ s >= len THEN ROk(<<>>)
             ELSE ROk(SubSeq(list, s + 1, e2 + 1))

pop_from(d, key, list, front) ==
    IF list = <<>> THEN [data |-> d, ret |-> ROk(None)]
    ELSE IF front
    THEN [data |-> [d EXCEPT ![key].value = VList(Tail(list))], ret |-> ROk(Some(Head(list)))]
    ELSE [data |-> [d EXCEPT ![key].value = VList(SubSeq(list, 1, Len(list) - 1))],
          ret |-> ROk(Some(list[Len(list)]))]

pop(d, key, front, t) ==
    LET e == Live(d, key, t) IN
    IF e = None THEN [data |-> d, ret |-> ROk(None)]
    ELSE IF Unwrap(e).value.t # "List" THEN [data |-> d, ret |-> RErr(WRONGTYPE)]
    ELSE pop_from(d, key, Unwrap(e).value.l, front)

lpop(d, key, t) == pop(d, key, TRUE, t)
rpop(d, key, t) == pop(d, key, FALSE, t)

lset_at(d, key, list, idx, value) ==
    IF idx < 0 \/ idx >= Len(list)
    THEN [data |-> d, ret |-> RErr(ERR(<<"index out of range">>))]
    ELSE [data |-> [d EXCEPT ![key].value = VList([list EXCEPT ![idx + 1] = value])],
          ret |-> ROk(<<>>)]

LSetCreates(d, key, index, value, t) ==
    \* faulty variant: an empty list is left behind at a key that was not there
    LET e == Live(d, key, t) IN
    IF e = None
    THEN [data |-> Insert(d, key, Entry_new(VList(<<>>))), ret |-> RErr(ERR(<<"no such key">>))]
    ELSE IF Unwrap(e).value.t # "List" THEN [data |-> d, ret |-> RErr(WRONGTYPE)]
    ELSE lset_at(d, key, Unwrap(e).value.l,
                 IF index < 0 THEN Len(Unwrap(e).value.l) + index ELSE index, value)

lset(d, key, index, value, t) ==
    LET e == Live(d, key, t) IN
    IF e = None THEN [data |-> d, ret |-> RErr(ERR(<<"no such key">>))]
    ELSE IF Unwrap(e).value.t # "List" THEN [data |-> d, ret |-> RErr(WRONGTYPE)]
    ELSE lset_at(d, key, Unwrap(e).value.l,
                 IF index < 0 THEN Len(Unwrap(e).value.l) + index ELSE index, value)

lindex(d, key, index, t) ==
    LET e == Live(d, key, t) IN
    IF e = None THEN ROk(None)
    ELSE IF Unwrap(e).value.t # "List" THEN RErr(WRONGTYPE)
    ELSE LET len == Len(Unwrap(e).value.l)
             idx == IF index < 0 THEN len + index ELSE index
         IN  IF idx < 0 \/ idx >= len THEN ROk(None)
             ELSE ROk(Some(Unwrap(e).value.l[idx + 1]))

SAddCountsArguments(d, key, members, t) ==
    \* faulty variant: every argument that was not in the set counts, repeated or not
    LET entry == EntryOrFresh(d, key, VSet({}), t) IN
    IF entry.value.t = "Set"
    THEN [data |-> Insert(d, key, [entry EXCEPT !.value =
                       VSet(entry.value.m \cup {members[i] : i \in 1..Len(members)})]),
          ret |-> ROk(Cardinality({i \in 1..Len(members) : members[i] \notin entry.value.m}))]
    ELSE [data |-> Insert(d, key, entry), ret |-> RErr(WRONGTYPE)]

sadd(d, key, members, t) ==
    LET entry == EntryOrFresh(d, key, VSet({}), t) IN
    IF entry.value.t = "Set"
    THEN LET new == {members[i] : i \in 1..Len(members)} IN
         [data |-> Insert(d, key, [entry EXCEPT !.value = VSet(entry.value.m \cup new)]),
          ret |-> ROk(Cardinality(new \ entry.value.m))]
    ELSE [data |-> Insert(d, key, entry), ret |-> RErr(WRONGTYPE)]

SRemDropsEmpty(d, key, members, t) ==
    \* faulty variant: a set that becomes empty is removed from the keyspace
    LET e == Live(d, key, t) IN
    IF e = None THEN [data |-> d, ret |-> ROk(0)]
    ELSE IF Unwrap(e).value.t # "Set" THEN [data |-> d, ret |-> RErr(WRONGTYPE)]
    ELSE LET gone == {members[i] : i \in 1..Len(members)} IN
         [data |-> IF Unwrap(e).value.m \ gone = {} THEN Remove(d, key)
                   ELSE [d EXCEPT ![key].value = VSet(Unwrap(e).value.m \ gone)],
          ret |-> ROk(Cardinality(gone \cap Unwrap(e).value.m))]

srem(d, key, members, t) ==
    LET e == Live(d, key, t) IN
    IF e = None THEN [data |-> d, ret |-> ROk(0)]
    ELSE IF Unwrap(e).value.t # "Set" THEN [data |-> d, ret |-> RErr(WRONGTYPE)]
    ELSE LET gone == {members[i] : i \in 1..Len(members)} IN
         [data |-> [d EXCEPT ![key].value = VSet(Unwrap(e).value.m \ gone)],
          ret |-> ROk(Cardinality(gone \cap Unwrap(e).value.m))]

smembers(d, key, t) ==
    LET e == Live(d, key, t) IN
    IF e = None THEN ROk({})
    ELSE IF Unwrap(e).value.t = "Set" THEN ROk(Unwrap(e).value.m)
    ELSE RErr(WRONGTYPE)

sismember(d, key, member, t) ==
    LET e == Live(d, key, t) IN
    IF e = None THEN ROk(FALSE)
    ELSE IF Unwrap(e).value.t = "Set" THEN ROk(member \in Unwrap(e).value.m)
    ELSE RErr(WRONGTYPE)

scard(d, key, t) ==
    LET e == Live(d, key, t) IN
    IF e = None THEN ROk(0)
    ELSE IF Unwrap(e).value.t = "Set" THEN ROk(Cardinality(Unwrap(e).value.m))
    ELSE RErr(WRONGTYPE)

HSetKeepsFirst(d, key, field, value, t) ==
    \* faulty variant: a field that exists keeps its value
    LET entry == EntryOrFresh(d, key, VHash(EmptyMap), t) IN
    IF entry.value.t # "Hash" THEN [data |-> Insert(d, key, entry), ret |-> RErr(WRONGTYPE)]
    ELSE IF field \in DOMAIN entry.value.h THEN [data |-> Insert(d, key, entry), ret |-> ROk(FALSE)]
    ELSE [data |-> Insert(d, key, [entry EXCEPT !.value = VHash(Insert(entry.value.h, field, value))]),
          ret |-> ROk(TRUE)]

hset(d, key, field, value, t) ==
    LET entry == EntryOrFresh(d, key, VHash(EmptyMap), t) IN
    IF entry.value.t = "Hash"
    THEN [data |-> Insert(d, key, [entry EXCEPT !.value = VHash(Insert(entry.value.h, field, value))]),
          ret |-> ROk(field \notin DOMAIN entry.value.h)]
    ELSE [data |-> Insert(d, key, entry), ret |-> RErr(WRONGTYPE)]

hdel(d, key, fields, t) ==
    LET e == Live(d, key, t) IN
    IF e = None THEN [data |-> d, ret |-> ROk(0)]
    ELSE IF Unwrap(e).value.t # "Hash" THEN [data |-> d, ret |-> RErr(WRONGTYPE)]
    ELSE LET gone == {fields[i] : i \in 1..Len(fields)} IN
         [data |-> [d EXCEPT ![key].value =
                       VHash([f \in (DOMAIN Unwrap(e).value.h) \ gone |-> Unwrap(e).value.h[f]])],
          ret |-> ROk(Cardinality(gone \cap DOMAIN Unwrap(e).value.h))]

hget(d, key, field, t) ==
    LET e == Live(d, key, t) IN
    IF e = None THEN ROk(None)
    ELSE IF Unwrap(e).value.t = "Hash" THEN ROk(Lookup(Unwrap(e).value.h, field))
    ELSE RErr(WRONGTYPE)

RECURSIVE insert_fields(_, _)
insert_fields(h, pairs) ==
    IF pairs = <<>> THEN h
    ELSE insert_fields(Insert(h, Head(pairs)[1], Head(pairs)[2]), Tail(pairs))

hmset(d, key, pairs, t) ==
    LET entry == EntryOrFresh(d, key, VHash(EmptyMap), t) IN
    IF entry.value.t = "Hash"
    THEN [data |-> Insert(d, key, [entry EXCEPT !.value = VHash(insert_fields(entry.value.h, pairs))]),
          ret |-> ROk(<<>>)]
    ELSE [data |-> Insert(d, key, entry), ret |-> RErr(WRONGTYPE)]

hincrby_on(d, key, entry, field, current, delta) ==
    IF current = None
    THEN [data |-> Insert(d, key, entry), ret |-> RErr(ERR(<<"hash value is not an integer">>))]
    ELSE IF Unwrap(current) + delta < I64_MIN \/ Unwrap(current) + delta > I64_MAX
    THEN [data |-> Insert(d, key, entry),
          ret |-> RErr(ERR(<<"increment or decrement would overflow">>))]
    ELSE [data |-> Insert(d, key, [entry EXCEPT !.value =
                       VHash(Insert(entry.value.h, field, to_string(Unwrap(current) + delta)))]),
          ret |-> ROk(Unwrap(current) + delta)]

hincrby(d, key, field, delta, t) ==
    LET entry == EntryOrFresh(d, key, VHash(EmptyMap), t) IN
    IF entry.value.t # "Hash" THEN [data |-> Insert(d, key, entry), ret |-> RErr(WRONGTYPE)]
    ELSE hincrby_on(d, key, entry, field,
                    IF field \in DOMAIN entry.value.h THEN parse_i64(entry.value.h[field])
                    ELSE Some(0), delta)

hmget(d, key, fields, t) ==
    LET e == Live(d, key, t) IN
    IF e = None THEN ROk([i \in 1..Len(fields) |-> None])
    ELSE IF Unwrap(e).value.t = "Hash"
         THEN ROk([i \in 1..Len(fields) |-> Lookup(Unwrap(e).value.h, fields[i])])
    ELSE RErr(WRONGTYPE)

\* hgetall / hkeys / hvals collect from a HashMap in its iteration order,
\* which the model leaves open: the result is the set of pairs / keys and
\* the bag of values as the hash itself
hgetall(d, key, t) ==
    LET e == Live(d, key, t) IN
    IF e = None THEN ROk(EmptyMap)
    ELSE IF Unwrap(e).value.t = "Hash" THEN ROk(Unwrap(e).value.h)
    ELSE RErr(WRONGTYPE)

hexists(d, key, field, t) ==
    LET e == Live(d, key, t) IN
    IF e = None THEN ROk(FALSE)
    ELSE IF Unwrap(e).value.t = "Hash" THEN ROk(field \in DOMAIN Unwrap(e).value.h)
    ELSE RErr(WRONGTYPE)

hlen(d, key, t) ==
    LET e == Live(d, key, t) IN
    IF e = None THEN ROk(0)
    ELSE IF Unwrap(e).value.t = "Hash" THEN ROk(Cardinality(DOMAIN Unwrap(e).value.h))
    ELSE RErr(WRONGTYPE)

hkeys(d, key, t) ==
    LET e == Live(d, key, t) IN
    IF e = None THEN ROk({})
    ELSE IF Unwrap(e).value.t = "Hash" THEN ROk(DOMAIN Unwrap(e).value.h)
    ELSE RErr(WRONGTYPE)

hvals(d, key, t) ==
    LET e == Live(d, key, t) IN
    IF e = None THEN ROk({})
    ELSE IF Unwrap(e).value.t = "Hash"
         THEN ROk({Unwrap(e).value.h[f] : f \in DOMAIN Unwrap(e).value.h})
    ELSE RErr(WRONGTYPE)

RECURSIVE glob_match_recursive(_, _)
glob_match_recursive(pattern, text) ==
    IF pattern = <<>> THEN text = <<>>
    ELSE CASE pattern[1] = "*" ->
                \E i \in 0..Len(text) : glob_match_recursive(Tail(pattern), SliceFrom(text, i))
           [] pattern[1] = "?" ->
                text # <<>> /\ glob_match_recursive(Tail(pattern), Tail(text))
           [] OTHER ->
                text # <<>> /\ text[1] = pattern[1]
                /\ glob_match_recursive(Tail(pattern), Tail(text))

GlobStarOnlyAtEnd(pattern, text) ==
    \* faulty variant: '*' swallows the rest of the text whatever follows it in the pattern
    IF pattern = <<>> THEN text = <<>>
    ELSE IF pattern[1] = "*" THEN TRUE
    ELSE text # <<>> /\ (pattern[1] = "?" \/ text[1] = pattern[1])
         /\ glob_match_recursive(Tail(pattern), Tail(text))

glob_match(pattern, text) ==
    IF pattern = <<"*">> THEN TRUE ELSE glob_match_recursive(pattern, text)

\* keys collects from the HashMap in its iteration order: the set of matches
keys(d, pattern, t) ==
    {k \in DOMAIN d : ~is_expired(d[k], t) /\ glob_match(pattern, k)}

RenameDropsExpiry(d, old_key, new_key, t) ==
    \* faulty variant: the entry arrives at the new key without its expiry
    IF old_key \in DOMAIN d /\ ~is_expired(d[old_key], t)
    THEN [data |-> Insert(Remove(d, old_key), new_key, Entry_new(d[old_key].value)), ret |-> ROk(<<>>)]
    ELSE [data |-> Remove(d, old_key), ret |-> RErr(ERR(<<"no such key">>))]

\* data.remove(old_key) comes first: an expired entry at old_key leaves the map
rename(d, old_key, new_key, t) ==
    IF old_key \in DOMAIN d /\ ~is_expired(d[old_key], t)
    THEN [data |-> Insert(Remove(d, old_key), new_key, d[old_key]), ret |-> ROk(<<>>)]
    ELSE [data |-> Remove(d, old_key), ret |-> RErr(ERR(<<"no such key">>))]

renamenx(d, old_key, new_key, t) ==
    IF new_key \in DOMAIN d /\ ~is_expired(d[new_key], t) THEN [data |-> d, ret |-> ROk(FALSE)]
    ELSE IF old_key \in DOMAIN d /\ ~is_expired(d[old_key], t)
    THEN [data |-> Insert(Remove(d, old_key), new_key, d[old_key]), ret |-> ROk(TRUE)]
    ELSE [data |-> Remove(d, old_key), ret |-> RErr(ERR(<<"no such key">>))]

dbsize(d, t) == Cardinality({k \in DOMAIN d : ~is_expired(d[k], t)})

flushdb(d) == EmptyMap

-----------------------------------------------------------------------------
(* Command and the dispatcher (commands.rs) *)

Command(name, args) == [name |-> name, args |-> args]

Whitespace == {" ", "\t", CR, LF}

\* str::split_whitespace: the maximal runs of non-whitespace bytes
RECURSIVE split_whitespace(_, _, _)
split_whitespace(s, word, acc) ==
    IF s = <<>> THEN (IF word = <<>> THEN acc ELSE Append(acc, word))
    ELSE IF Head(s) \in Whitespace
         THEN split_whitespace(Tail(s), <<>>, IF word = <<>> THEN acc ELSE Append(acc, word))
         ELSE split_whitespace(Tail(s), Append(word, Head(s)), acc)

FromRespNoUppercase(resp) ==
    \* faulty variant: the command name keeps the letter case it was sent in
    IF resp.t = "Array" /\ resp.a # None
    THEN LET its == Unwrap(resp.a) IN
         IF its = <<>> THEN RErr(ERR(<<"empty command">>))
         ELSE IF \E i \in 1..Len(its) :
                    ~(its[i].t = "Simple" \/ (its[i].t = "Bulk" /\ its[i].o # None))
              THEN RErr(ERR(<<"invalid command format">>))
              ELSE LET args == [i \in 1..Len(its) |->
                                   IF its[i].t = "Simple" THEN its[i].s ELSE Unwrap(its[i].o)]
                   IN  ROk(Command(Head(args), Tail(args)))
    ELSE IF resp.t = "Simple"
    THEN LET parts == split_whitespace(resp.s, <<>>, <<>>) IN
         IF parts = <<>> THEN RErr(ERR(<<"empty command">>))
         ELSE ROk(Command(Head(parts), Tail(parts)))
    ELSE RErr(ERR(<<"invalid command format">>))

\* Command::from_resp
from_resp(resp) ==
    IF resp.t = "Array" /\ resp.a # None
    THEN LET its == Unwrap(resp.a) IN
         IF its = <<>> THEN RErr(ERR(<<"empty command">>))
         ELSE IF \E i \in 1..Len(its) :
                    ~(its[i].t = "Simple" \/ (its[i].t = "Bulk" /\ its[i].o # None))
              THEN RErr(ERR(<<"invalid command format">>))
              ELSE LET args == [i \in 1..Len(its) |->
                                   IF its[i].t = "Simple" THEN its[i].s ELSE Unwrap(its[i].o)]
                   IN  ROk(Command(to_uppercase(Head(args)), Tail(args)))
    ELSE IF resp.t = "Simple"
    THEN LET parts == split_whitespace(resp.s, <<>>, <<>>) IN
         IF parts = <<>> THEN RErr(ERR(<<"empty command">>))
         ELSE ROk(Command(to_uppercase(Head(parts)), Tail(parts)))
    ELSE RErr(ERR(<<"invalid command format">>))

N_PING    == <<"P", "I", "N", "G">>
N_ECHO    == <<"E", "C", "H", "O">>
N_QUIT    == <<"Q", "U", "I", "T">>
N_DBSIZE  == <<"D", "B", "S", "I", "Z", "E">>
N_SET     == <<"S", "E", "T">>
N_GET     == <<"G", "E", "T">>
N_SETEX   == <<"S", "E", "T", "E", "X">>
N_PSETEX  == <<"P", "S", "E", "T", "E", "X">>
N_MGET    == <<"M", "G", "E", "T">>
N_SETNX   == <<"S", "E", "T", "N", "X">>
N_MSET    == <<"M", "S", "E", "T">>
N_INCR    == <<"I", "N", "C", "R">>
N_INCRBY  == <<"I", "N", "C", "R", "B", "Y">>
N_DECR    == <<"D", "E", "C", "R">>
N_DECRBY  == <<"D", "E", "C", "R", "B", "Y">>
N_DEL     == <<"D", "E", "L">>
N_EXISTS  == <<"E", "X", "I", "S", "T", "S">>
N_EXPIRE  == <<"E", "X", "P", "I", "R", "E">>
N_PEXPIRE == <<"P", "E", "X", "P", "I", "R", "E">>
N_TTL     == <<"T", "T", "L">>
N_PTTL    == <<"P", "T", "T", "L">>
N_PERSIST == <<"P", "E", "R", "S", "I", "S", "T">>
N_TYPE    == <<"T", "Y", "P", "E">>
N_KEYS    == <<"K", "E", "Y", "S">>
N_COMMAND == <<"C", "O", "M", "M", "A", "N", "D">>
N_CONFIG  == <<"C", "O", "N", "F", "I", "G">>
N_CLIENT  == <<"C", "L", "I", "E", "N", "T">>
N_RENAME  == <<"R", "E", "N", "A", "M", "E">>
N_RENAMENX == <<"R", "E", "N", "A", "M", "E", "N", "X">>
N_GETSET  == <<"G", "E", "T", "S", "E", "T">>
N_APPEND  == <<"A", "P", "P", "E", "N", "D">>
N_STRLEN  == <<"S", "T", "R", "L", "E", "N">>
N_LINDEX  == <<"L", "I", "N", "D", "E", "X">>
N_SMEMBERS == <<"S", "M", "E", "M", "B", "E", "R", "S">>
N_HMSET   == <<"H", "M", "S", "E", "T">>
N_HMGET   == <<"H", "M", "G", "E", "T">>
N_HGETALL == <<"H", "G", "E", "T", "A", "L", "L">>
N_HEXISTS == <<"H", "E", "X", "I", "S", "T", "S">>
N_HKEYS   == <<"H", "K", "E", "Y", "S">>
N_HVALS   == <<"H", "V", "A", "L", "S">>
N_HINCRBY == <<"H", "I", "N", "C", "R", "B", "Y">>
N_FLUSHDB == <<"F", "L", "U", "S", "H", "D", "B">>
N_LPUSH   == <<"L", "P", "U", "S", "H">>
N_RPUSH   == <<"R", "P", "U", "S", "H">>
N_LLEN    == <<"L", "L", "E", "N">>
N_LPOP    == <<"L", "P", "O", "P">>
N_RPOP    == <<"R", "P", "O", "P">>
N_LRANGE  == <<"L", "R", "A", "N", "G", "E">>
N_LSET    == <<"L", "S", "E", "T">>
N_SADD    == <<"S", "A", "D", "D">>
N_SCARD   == <<"S", "C", "A", "R", "D">>
N_SREM    == <<"S", "R", "E", "M">>
N_SISMEMBER == <<"S", "I", "S", "M", "E", "M", "B", "E", "R">>
N_HDEL    == <<"H", "D", "E", "L">>
N_HSET    == <<"H", "S", "E", "T">>
N_HGET    == <<"H", "G", "E", "T">>
N_HLEN    == <<"H", "L", "E", "N">>
\* the option tokens of SET
T_EX == <<"E", "X">>
T_PX == <<"P", "X">>
T_NX == <<"N", "X">>
T_XX == <<"X", "X">>
T_KEEPTTL == <<"K", "E", "E", "P", "T", "T", "L">>

OK == Simple(<<"O", "K">>)
NullBulk == Bulk(None)
\* a panic of the session's task in the middle of a command: nothing is written
PanicReply == [t |-> "Panic"]

WrongArgs(name) == Error(ERR(<<"wrong number of arguments for '", name, "' command">>))
NotAnInteger == Error(ERR(<<"value is not an integer or out of range">>))
SyntaxError == Error(ERR(<<"syntax error">>))

OptBulk(o) == IF o = None THEN Bulk(None) ELSE Bulk(Some(Unwrap(o)))
ResultInt(r) == IF r.ok THEN Integer(r.v) ELSE Error(r.e)
BoolInt(b) == IF b THEN Integer(1) ELSE Integer(0)

\* u64 multiplication of the build: a * b with a, b in 0..U64_MAX
MsPerSec == 1000
mul_overflows(a, b) == a * b > U64_MAX
mul_wrapped(a, b) == (a * b) % (U64_MAX + 1)

\* what a handler returns without touching the keyspace
Only(d, r) == [data |-> d, reply |-> r]

PingAlwaysPong(c, d) ==
    \* faulty variant: the message is dropped
    Only(d, Simple(<<"P", "O", "N", "G">>))

cmd_ping(c, d) ==
    Only(d, IF c.args = <<>> THEN Simple(<<"P", "O", "N", "G">>) ELSE Bulk(Some(c.args[1])))

cmd_echo(c, d) ==
    Only(d, IF c.args = <<>> THEN WrongArgs("echo") ELSE Bulk(Some(c.args[1])))

cmd_quit(c, d) == Only(d, OK)

T_DOCS    == <<"D", "O", "C", "S">>
T_COUNT   == <<"C", "O", "U", "N", "T">>
T_SETINFO == <<"S", "E", "T", "I", "N", "F", "O">>
T_SETNAME == <<"S", "E", "T", "N", "A", "M", "E">>
T_GETNAME == <<"G", "E", "T", "N", "A", "M", "E">>
T_LIST    == <<"L", "I", "S", "T">>
T_ID      == <<"I", "D">>
T_SAVE    == <<"s", "a", "v", "e">>
CommandCount == 40

cmd_command(c, d) ==
    IF c.args = <<>> \/ to_uppercase(c.args[1]) = T_DOCS THEN Only(d, Array(Some(<<>>)))
    ELSE IF to_uppercase(c.args[1]) = T_COUNT THEN Only(d, Integer(CommandCount))
    ELSE Only(d, Array(Some(<<>>)))

cmd_config(c, d) ==
    IF c.args = <<>> THEN Only(d, WrongArgs("config"))
    ELSE CASE to_uppercase(c.args[1]) = <<"G", "E", "T">> ->
                IF Len(c.args) < 2 THEN Only(d, WrongArgs("config|get"))
                ELSE IF c.args[2] = T_SAVE \/ c.args[2] = <<"*">>
                THEN Only(d, Array(Some(<<Bulk(Some(T_SAVE)), Bulk(Some(<<>>))>>)))
                ELSE Only(d, Array(Some(<<>>)))
           [] to_uppercase(c.args[1]) = <<"S", "E", "T">> -> Only(d, OK)
           [] OTHER -> Only(d, Error(ERR(<<"Unknown subcommand '">> \o c.args[1] \o <<"'">>)))

cmd_client(c, d) ==
    IF c.args = <<>> THEN Only(d, WrongArgs("client"))
    ELSE CASE to_uppercase(c.args[1]) = T_SETINFO -> Only(d, OK)
           [] to_uppercase(c.args[1]) = T_SETNAME -> Only(d, OK)
           [] to_uppercase(c.args[1]) = T_GETNAME -> Only(d, Bulk(None))
           [] to_uppercase(c.args[1]) = T_LIST ->
                Only(d, Bulk(Some(<<"id=1 addr=127.0.0.1:0 fd=1 name= db=0", LF>>)))
           [] to_uppercase(c.args[1]) = T_ID -> Only(d, Integer(1))
           [] OTHER -> Only(d, OK)

cmd_dbsize(c, d, t) == Only(d, Integer(dbsize(d, t)))

cmd_get(c, d, t) ==
    IF c.args = <<>> THEN Only(d, WrongArgs("get"))
    ELSE Only(d, OptBulk(get(d, c.args[1], t)))

\* the seconds argument of SETEX / EXPIRE / SET EX, as milliseconds
SecsToMs(secs) ==
    IF mul_overflows(secs, MsPerSec)
    THEN (IF overflow_checks THEN None ELSE Some(mul_wrapped(secs, MsPerSec)))
    ELSE Some(secs * MsPerSec)

cmd_setex(c, d, t) ==
    IF Len(c.args) < 3 THEN Only(d, WrongArgs("setex"))
    ELSE LET seconds == parse_u64(c.args[2]) IN
         IF seconds = None THEN Only(d, NotAnInteger)
         ELSE LET ms == SecsToMs(Unwrap(seconds)) IN
              IF ms = None THEN Only(d, PanicReply)
              ELSE [data |-> set_with_expiry(d, c.args[1], c.args[3], Unwrap(ms), t),
                    reply |-> OK]

cmd_psetex(c, d, t) ==
    IF Len(c.args) < 3 THEN Only(d, WrongArgs("psetex"))
    ELSE LET ms == parse_u64(c.args[2]) IN
         IF ms = None THEN Only(d, NotAnInteger)
         ELSE [data |-> set_with_expiry(d, c.args[1], c.args[3], Unwrap(ms), t),
               reply |-> OK]

cmd_setnx(c, d, t) ==
    IF Len(c.args) < 2 THEN Only(d, WrongArgs("setnx"))
    ELSE LET r == setnx(d, c.args[1], c.args[2], t) IN
         [data |-> r.data, reply |-> Integer(IF r.ret THEN 1 ELSE 0)]

\* args.chunks(2) as (key, value) pairs
chunks2(args) == [i \in 1..(Len(args) \div 2) |-> <<args[2 * i - 1], args[2 * i]>>]

cmd_mset(c, d) ==
    IF c.args = <<>> \/ Len(c.args) % 2 # 0 THEN Only(d, WrongArgs("mset"))
    ELSE [data |-> mset(d, chunks2(c.args)), reply |-> OK]

cmd_mget(c, d, t) ==
    IF c.args = <<>> THEN Only(d, WrongArgs("mget"))
    ELSE LET values == mget(d, c.args, t) IN
         Only(d, Array(Some([i \in 1..Len(values) |-> OptBulk(values[i])])))

cmd_incr(c, d, t) ==
    IF c.args = <<>> THEN Only(d, WrongArgs("incr"))
    ELSE LET r == incr(d, c.args[1], t) IN
         [data |-> r.data, reply |-> ResultInt(r.ret)]

cmd_incrby(c, d, t) ==
    IF Len(c.args) < 2 THEN Only(d, WrongArgs("incrby"))
    ELSE LET delta == parse_i64(c.args[2]) IN
         IF delta = None THEN Only(d, NotAnInteger)
         ELSE LET r == incr_by(d, c.args[1], Unwrap(delta), t) IN
              [data |-> r.data, reply |-> ResultInt(r.ret)]

cmd_decr(c, d, t) ==
    IF c.args = <<>> THEN Only(d, WrongArgs("decr"))
    ELSE LET r == decr(d, c.args[1], t) IN
         [data |-> r.data, reply |-> ResultInt(r.ret)]

\* -delta on an i64: the negation of i64::MIN overflows, which panics in a
\* build with overflow checks and wraps back to i64::MIN in one without
neg(delta) ==
    IF delta = I64_MIN THEN (IF overflow_checks THEN None ELSE Some(I64_MIN))
    ELSE Some(-delta)

DecrByNegated(c, d, t, minus) ==
    IF minus = None THEN Only(d, PanicReply)
    ELSE LET r == incr_by(d, c.args[1], Unwrap(minus), t) IN
         [data |-> r.data, reply |-> ResultInt(r.ret)]

cmd_decrby(c, d, t) ==
    IF Len(c.args) < 2 THEN Only(d, WrongArgs("decrby"))
    ELSE LET delta == parse_i64(c.args[2]) IN
         IF delta = None THEN Only(d, NotAnInteger)
         ELSE DecrByNegated(c, d, t, neg(Unwrap(delta)))

cmd_del(c, d) ==
    IF c.args = <<>> THEN Only(d, WrongArgs("del"))
    ELSE LET r == del(d, c.args) IN [data |-> r.data, reply |-> Integer(r.ret)]

cmd_exists(c, d, t) ==
    IF c.args = <<>> THEN Only(d, WrongArgs("exists"))
    ELSE Only(d, Integer(exists(d, c.args, t)))

cmd_expire(c, d, t) ==
    IF Len(c.args) < 2 THEN Only(d, WrongArgs("expire"))
    ELSE LET seconds == parse_u64(c.args[2]) IN
         IF seconds = None THEN Only(d, NotAnInteger)
         ELSE LET ms == SecsToMs(Unwrap(seconds)) IN
              IF ms = None THEN Only(d, PanicReply)
              ELSE LET r == expire(d, c.args[1], Unwrap(ms), t) IN
                   [data |-> r.data, reply |-> BoolInt(r.ret)]

cmd_pexpire(c, d, t) ==
    IF Len(c.args) < 2 THEN Only(d, WrongArgs("pexpire"))
    ELSE LET ms == parse_u64(c.args[2]) IN
         IF ms = None THEN Only(d, NotAnInteger)
         ELSE LET r == expire(d, c.args[1], Unwrap(ms), t) IN
              [data |-> r.data, reply |-> BoolInt(r.ret)]

cmd_ttl(c, d, t) ==
    IF c.args = <<>> THEN Only(d, WrongArgs("ttl"))
    ELSE LET ms == ttl(d, c.args[1], t) IN
         Only(d, IF ms = -2 \/ ms = -1 THEN Integer(ms) ELSE Integer(ms \div 1000))

cmd_pttl(c, d, t) ==
    IF c.args = <<>> THEN Only(d, WrongArgs("pttl"))
    ELSE Only(d, Integer(ttl(d, c.args[1], t)))

cmd_persist(c, d, t) ==
    IF c.args = <<>> THEN Only(d, WrongArgs("persist"))
    ELSE LET r == persist(d, c.args[1], t) IN [data |-> r.data, reply |-> BoolInt(r.ret)]

\* keys is the HashMap's iteration order over the matches: in_order is one
\* arrangement of them
cmd_keys(c, d, t, in_order) ==
    IF Range(in_order) = keys(d, IF c.args = <<>> THEN <<"*">> ELSE c.args[1], t)
       /\ Len(in_order) = Cardinality(Range(in_order))
    THEN Only(d, Array(Some([i \in 1..Len(in_order) |-> Bulk(Some(in_order[i]))])))
    ELSE Only(d, PanicReply)

cmd_rename(c, d, t) ==
    IF Len(c.args) < 2 THEN Only(d, WrongArgs("rename"))
    ELSE LET r == rename(d, c.args[1], c.args[2], t) IN
         [data |-> r.data, reply |-> IF r.ret.ok THEN OK ELSE Error(r.ret.e)]

cmd_renamenx(c, d, t) ==
    IF Len(c.args) < 2 THEN Only(d, WrongArgs("renamenx"))
    ELSE LET r == renamenx(d, c.args[1], c.args[2], t) IN
         [data |-> r.data,
          reply |-> IF r.ret.ok THEN Integer(IF r.ret.v THEN 1 ELSE 0) ELSE Error(r.ret.e)]

cmd_getset(c, d, t) ==
    IF Len(c.args) < 2 THEN Only(d, WrongArgs("getset"))
    ELSE LET r == getset(d, c.args[1], c.args[2], t) IN
         [data |-> r.data, reply |-> OptBulk(r.ret)]

cmd_append(c, d, t) ==
    IF Len(c.args) < 2 THEN Only(d, WrongArgs("append"))
    ELSE LET r == append(d, c.args[1], c.args[2], t) IN
         [data |-> r.data, reply |-> ResultInt(r.ret)]

cmd_strlen(c, d, t) ==
    IF c.args = <<>> THEN Only(d, WrongArgs("strlen"))
    ELSE Only(d, ResultInt(strlen(d, c.args[1], t)))

cmd_lindex(c, d, t) ==
    IF Len(c.args) < 2 THEN Only(d, WrongArgs("lindex"))
    ELSE LET index == parse_i64(c.args[2]) IN
         IF index = None THEN Only(d, NotAnInteger)
         ELSE LET r == lindex(d, c.args[1], Unwrap(index), t) IN
              Only(d, IF r.ok THEN OptBulk(r.v) ELSE Error(r.e))

cmd_hmset(c, d, t) ==
    IF Len(c.args) < 3 \/ (Len(c.args) - 1) % 2 # 0 THEN Only(d, WrongArgs("hmset"))
    ELSE LET r == hmset(d, c.args[1], chunks2(Tail(c.args)), t) IN
         [data |-> r.data, reply |-> IF r.ret.ok THEN OK ELSE Error(r.ret.e)]

cmd_hmget(c, d, t) ==
    IF Len(c.args) < 2 THEN Only(d, WrongArgs("hmget"))
    ELSE LET r == hmget(d, c.args[1], Tail(c.args), t) IN
         Only(d, IF r.ok THEN Array(Some([i \in 1..Len(r.v) |-> OptBulk(r.v[i])])) ELSE Error(r.e))

cmd_hexists(c, d, t) ==
    IF Len(c.args) < 2 THEN Only(d, WrongArgs("hexists"))
    ELSE LET r == hexists(d, c.args[1], c.args[2], t) IN
         Only(d, IF r.ok THEN Integer(IF r.v THEN 1 ELSE 0) ELSE Error(r.e))

cmd_hincrby(c, d, t) ==
    IF Len(c.args) < 3 THEN Only(d, WrongArgs("hincrby"))
    ELSE LET delta == parse_i64(c.args[3]) IN
         IF delta = None THEN Only(d, NotAnInteger)
         ELSE LET r == hincrby(d, c.args[1], c.args[2], Unwrap(delta), t) IN
              [data |-> r.data, reply |-> ResultInt(r.ret)]

\* SMEMBERS / HKEYS / HVALS / HGETALL reply a HashSet's or HashMap's iteration
\* order: in_order is one arrangement of the members / fields.
InOrderOf(S, in_order) == Range(in_order) = S /\ Len(in_order) = Cardinality(S)

cmd_smembers(c, d, t, in_order) ==
    IF c.args = <<>> THEN Only(d, WrongArgs("smembers"))
    ELSE LET r == smembers(d, c.args[1], t) IN
         IF ~r.ok THEN Only(d, Error(r.e))
         ELSE IF ~InOrderOf(r.v, in_order) THEN Only(d, PanicReply)
         ELSE Only(d, Array(Some([i \in 1..Len(in_order) |-> Bulk(Some(in_order[i]))])))

cmd_hkeys(c, d, t, in_order) ==
    IF c.args = <<>> THEN Only(d, WrongArgs("hkeys"))
    ELSE LET r == hkeys(d, c.args[1], t) IN
         IF ~r.ok THEN Only(d, Error(r.e))
         ELSE IF ~InOrderOf(r.v, in_order) THEN Only(d, PanicReply)
         ELSE Only(d, Array(Some([i \in 1..Len(in_order) |-> Bulk(Some(in_order[i]))])))

cmd_hvals(c, d, t, in_order) ==
    IF c.args = <<>> THEN Only(d, WrongArgs("hvals"))
    ELSE LET r == hgetall(d, c.args[1], t) IN
         IF ~r.ok THEN Only(d, Error(r.e))
         ELSE IF ~InOrderOf(DOMAIN r.v, in_order) THEN Only(d, PanicReply)
         ELSE Only(d, Array(Some([i \in 1..Len(in_order) |-> Bulk(Some(r.v[in_order[i]]))])))

cmd_hgetall(c, d, t, in_order) ==
    IF c.args = <<>> THEN Only(d, WrongArgs("hgetall"))
    ELSE LET r == hgetall(d, c.args[1], t) IN
         IF ~r.ok THEN Only(d, Error(r.e))
         ELSE IF ~InOrderOf(DOMAIN r.v, in_order) THEN Only(d, PanicReply)
         ELSE Only(d, Array(Some([i \in 1..(2 * Len(in_order)) |->
                  IF i % 2 = 1 THEN Bulk(Some(in_order[(i + 1) \div 2]))
                  ELSE Bulk(Some(r.v[in_order[i \div 2]]))])))

cmd_type(c, d, t) ==
    IF c.args = <<>> THEN Only(d, WrongArgs("type"))
    ELSE LET ty == get_type(d, c.args[1], t) IN
         Only(d, IF ty = None THEN Simple(<<"n", "o", "n", "e">>) ELSE Simple(Unwrap(ty)))

cmd_flushdb(c, d) == [data |-> flushdb(d), reply |-> OK]

cmd_lpush(c, d, t) ==
    IF Len(c.args) < 2 THEN Only(d, WrongArgs("lpush"))
    ELSE LET r == lpush(d, c.args[1], Tail(c.args), t) IN
         [data |-> r.data, reply |-> ResultInt(r.ret)]

cmd_rpush(c, d, t) ==
    IF Len(c.args) < 2 THEN Only(d, WrongArgs("rpush"))
    ELSE LET r == rpush(d, c.args[1], Tail(c.args), t) IN
         [data |-> r.data, reply |-> ResultInt(r.ret)]

cmd_lpop(c, d, t) ==
    IF c.args = <<>> THEN Only(d, WrongArgs("lpop"))
    ELSE LET r == lpop(d, c.args[1], t) IN
         [data |-> r.data, reply |-> IF r.ret.ok THEN OptBulk(r.ret.v) ELSE Error(r.ret.e)]

cmd_rpop(c, d, t) ==
    IF c.args = <<>> THEN Only(d, WrongArgs("rpop"))
    ELSE LET r == rpop(d, c.args[1], t) IN
         [data |-> r.data, reply |-> IF r.ret.ok THEN OptBulk(r.ret.v) ELSE Error(r.ret.e)]

BulkEach(values) == Array(Some([i \in 1..Len(values) |-> Bulk(Some(values[i]))]))

LRangeParsed(c, d, t, start, stop) ==
    IF start = None \/ stop = None THEN Only(d, NotAnInteger)
    ELSE LET r == lrange(d, c.args[1], Unwrap(start), Unwrap(stop), t) IN
         Only(d, IF r.ok THEN BulkEach(r.v) ELSE Error(r.e))

cmd_lrange(c, d, t) ==
    IF Len(c.args) < 3 THEN Only(d, WrongArgs("lrange"))
    ELSE LRangeParsed(c, d, t, parse_i64(c.args[2]), parse_i64(c.args[3]))

cmd_lset(c, d, t) ==
    IF Len(c.args) < 3 THEN Only(d, WrongArgs("lset"))
    ELSE LET index == parse_i64(c.args[2]) IN
         IF index = None THEN Only(d, NotAnInteger)
         ELSE LET r == lset(d, c.args[1], Unwrap(index), c.args[3], t) IN
              [data |-> r.data, reply |-> IF r.ret.ok THEN OK ELSE Error(r.ret.e)]

cmd_llen(c, d, t) ==
    IF c.args = <<>> THEN Only(d, WrongArgs("llen"))
    ELSE Only(d, ResultInt(llen(d, c.args[1], t)))

cmd_sadd(c, d, t) ==
    IF Len(c.args) < 2 THEN Only(d, WrongArgs("sadd"))
    ELSE LET r == sadd(d, c.args[1], Tail(c.args), t) IN
         [data |-> r.data, reply |-> ResultInt(r.ret)]

cmd_srem(c, d, t) ==
    IF Len(c.args) < 2 THEN Only(d, WrongArgs("srem"))
    ELSE LET r == srem(d, c.args[1], Tail(c.args), t) IN
         [data |-> r.data, reply |-> ResultInt(r.ret)]

cmd_sismember(c, d, t) ==
    IF Len(c.args) < 2 THEN Only(d, WrongArgs("sismember"))
    ELSE LET r == sismember(d, c.args[1], c.args[2], t) IN
         Only(d, IF r.ok THEN Integer(IF r.v THEN 1 ELSE 0) ELSE Error(r.e))

cmd_scard(c, d, t) ==
    IF c.args = <<>> THEN Only(d, WrongArgs("scard"))
    ELSE Only(d, ResultInt(scard(d, c.args[1], t)))

cmd_hget(c, d, t) ==
    IF Len(c.args) < 2 THEN Only(d, WrongArgs("hget"))
    ELSE LET r == hget(d, c.args[1], c.args[2], t) IN
         Only(d, IF r.ok THEN OptBulk(r.v) ELSE Error(r.e))

cmd_hdel(c, d, t) ==
    IF Len(c.args) < 2 THEN Only(d, WrongArgs("hdel"))
    ELSE LET r == hdel(d, c.args[1], Tail(c.args), t) IN
         [data |-> r.data, reply |-> ResultInt(r.ret)]

cmd_hlen(c, d, t) ==
    IF c.args = <<>> THEN Only(d, WrongArgs("hlen"))
    ELSE Only(d, ResultInt(hlen(d, c.args[1], t)))

\* A command runs as a sequence of keyspace calls, each one atomic under the
\* map's lock.  st is the handler's position and locals between two calls; a
\* step runs the handler up to and including its next keyspace call and gives
\* [st, data, reply]: reply is None while the handler has more calls to make.
Start == [pos |-> "start", old_value |-> None, added |-> 0, i |-> 1]
More(st, d) == [st |-> st, data |-> d, reply |-> None]
Done(d, r) == [st |-> [Start EXCEPT !.pos = "done"], data |-> d, reply |-> Some(r)]

NoOptions == [expiry_ms |-> None, nx |-> FALSE, xx |-> FALSE, get |-> FALSE, err |-> None]

\* the option loop of cmd_set, from args[i] on (i as in the source, 0-based)
RECURSIVE set_options(_, _, _)
set_options(args, i, o) ==
    IF i >= Len(args) THEN o
    ELSE LET tok == to_uppercase(args[i + 1]) IN
         CASE tok = T_EX ->
                IF i + 1 >= Len(args) THEN [o EXCEPT !.err = Some(SyntaxError)]
                ELSE LET secs == parse_u64(args[i + 2]) IN
                     IF secs = None THEN [o EXCEPT !.err = Some(NotAnInteger)]
                     ELSE LET ms == SecsToMs(Unwrap(secs)) IN
                          IF ms = None THEN [o EXCEPT !.err = Some(PanicReply)]
                          ELSE set_options(args, i + 2, [o EXCEPT !.expiry_ms = ms])
           [] tok = T_PX ->
                IF i + 1 >= Len(args) THEN [o EXCEPT !.err = Some(SyntaxError)]
                ELSE LET ms == parse_u64(args[i + 2]) IN
                     IF ms = None THEN [o EXCEPT !.err = Some(NotAnInteger)]
                     ELSE set_options(args, i + 2, [o EXCEPT !.expiry_ms = ms])
           [] tok = T_NX -> set_options(args, i + 1, [o EXCEPT !.nx = TRUE])
           [] tok = T_XX -> set_options(args, i + 1, [o EXCEPT !.xx = TRUE])
           [] tok = N_GET -> set_options(args, i + 1, [o EXCEPT !.get = TRUE])
           [] tok = T_KEEPTTL -> set_options(args, i + 1, o)
           [] OTHER -> [o EXCEPT !.err = Some(SyntaxError)]

\* cmd_set: storage.get for `exists`, storage.get again for the reply of a
\* skipped NX ... GET or for old_value, then storage.set / set_with_expiry
cmd_set_step(c, st, d, t) ==
    IF Len(c.args) < 2 THEN Done(d, WrongArgs("set"))
    ELSE LET key == c.args[1]
             value == c.args[2]
             o == set_options(c.args, 2, NoOptions)
         IN  IF o.err # None THEN Done(d, Unwrap(o.err))
             ELSE CASE st.pos = "start" ->
                        LET exists_ == get(d, key, t) # None IN
                        IF o.nx /\ exists_
                        THEN (IF o.get THEN More([st EXCEPT !.pos = "nxget"], d)
                              ELSE Done(d, NullBulk))
                        ELSE IF o.xx /\ ~exists_ THEN Done(d, NullBulk)
                        ELSE IF o.get THEN More([st EXCEPT !.pos = "old"], d)
                        ELSE More([st EXCEPT !.pos = "write"], d)
                    [] st.pos = "nxget" -> Done(d, OptBulk(get(d, key, t)))
                    [] st.pos = "old" ->
                        More([st EXCEPT !.pos = "write", !.old_value = get(d, key, t)], d)
                    [] st.pos = "write" ->
                        Done(IF o.expiry_ms # None
                             THEN set_with_expiry(d, key, value, Unwrap(o.expiry_ms), t)
                             ELSE set(d, key, value),
                             IF o.get THEN OptBulk(st.old_value) ELSE OK)

\* cmd_hset: one storage.hset per (field, value) chunk of args[1..]
cmd_hset_step(c, st, d, t) ==
    IF Len(c.args) < 3 \/ (Len(c.args) - 1) % 2 # 0 THEN Done(d, WrongArgs("hset"))
    ELSE LET r == hset(d, c.args[1], c.args[2 * st.i], c.args[2 * st.i + 1], t) IN
         IF ~r.ret.ok THEN Done(r.data, Error(r.ret.e))
         ELSE LET added == st.added + (IF r.ret.v THEN 1 ELSE 0) IN
              IF 2 * st.i + 1 >= Len(c.args) THEN Done(r.data, Integer(added))
              ELSE More([st EXCEPT !.pos = "chunk", !.i = st.i + 1, !.added = added], r.data)

\* execute's dispatch on the name, for the handlers that make at most one
\* keyspace call.  Only the handlers modelled above are listed; execute knows
\* further names, which no command issued in the specifications below uses.
single_call(c, d, t) ==
    CASE c.name = N_PING    -> cmd_ping(c, d)
      [] c.name = N_ECHO    -> cmd_echo(c, d)
      [] c.name = N_QUIT    -> cmd_quit(c, d)
      [] c.name = N_COMMAND -> cmd_command(c, d)
      [] c.name = N_CONFIG  -> cmd_config(c, d)
      [] c.name = N_CLIENT  -> cmd_client(c, d)
      [] c.name = N_DBSIZE  -> cmd_dbsize(c, d, t)
      [] c.name = N_GET     -> cmd_get(c, d, t)
      [] c.name = N_SETEX   -> cmd_setex(c, d, t)
      [] c.name = N_PSETEX  -> cmd_psetex(c, d, t)
      [] c.name = N_MGET    -> cmd_mget(c, d, t)
      [] c.name = N_SETNX   -> cmd_setnx(c, d, t)
      [] c.name = N_MSET    -> cmd_mset(c, d)
      [] c.name = N_INCR    -> cmd_incr(c, d, t)
      [] c.name = N_INCRBY  -> cmd_incrby(c, d, t)
      [] c.name = N_DECR    -> cmd_decr(c, d, t)
      [] c.name = N_DECRBY  -> cmd_decrby(c, d, t)
      [] c.name = N_DEL     -> cmd_del(c, d)
      [] c.name = N_EXISTS  -> cmd_exists(c, d, t)
      [] c.name = N_EXPIRE  -> cmd_expire(c, d, t)
      [] c.name = N_PEXPIRE -> cmd_pexpire(c, d, t)
      [] c.name = N_TTL     -> cmd_ttl(c, d, t)
      [] c.name = N_PTTL    -> cmd_pttl(c, d, t)
      [] c.name = N_PERSIST -> cmd_persist(c, d, t)
      [] c.name = N_TYPE    -> cmd_type(c, d, t)
      [] c.name = N_RENAME  -> cmd_rename(c, d, t)
      [] c.name = N_RENAMENX -> cmd_renamenx(c, d, t)
      [] c.name = N_GETSET  -> cmd_getset(c, d, t)
      [] c.name = N_APPEND  -> cmd_append(c, d, t)
      [] c.name = N_STRLEN  -> cmd_strlen(c, d, t)
      [] c.name = N_LINDEX  -> cmd_lindex(c, d, t)
      [] c.name = N_HMSET   -> cmd_hmset(c, d, t)
      [] c.name = N_HMGET   -> cmd_hmget(c, d, t)
      [] c.name = N_HEXISTS -> cmd_hexists(c, d, t)
      [] c.name = N_HINCRBY -> cmd_hincrby(c, d, t)
      [] c.name = N_FLUSHDB -> cmd_flushdb(c, d)
      [] c.name = N_LPUSH   -> cmd_lpush(c, d, t)
      [] c.name = N_RPUSH   -> cmd_rpush(c, d, t)
      [] c.name = N_LLEN    -> cmd_llen(c, d, t)
      [] c.name = N_LPOP    -> cmd_lpop(c, d, t)
      [] c.name = N_RPOP    -> cmd_rpop(c, d, t)
      [] c.name = N_LRANGE  -> cmd_lrange(c, d, t)
      [] c.name = N_LSET    -> cmd_lset(c, d, t)
      [] c.name = N_SADD    -> cmd_sadd(c, d, t)
      [] c.name = N_SCARD   -> cmd_scard(c, d, t)
      [] c.name = N_SREM    -> cmd_srem(c, d, t)
      [] c.name = N_SISMEMBER -> cmd_sismember(c, d, t)
      [] c.name = N_HDEL    -> cmd_hdel(c, d, t)
      [] c.name = N_HGET    -> cmd_hget(c, d, t)
      [] c.name = N_HLEN    -> cmd_hlen(c, d, t)
      [] OTHER -> Only(d, Error(ERR(<<"unknown command '">> \o c.name \o <<"'">>)))

AsDone(r) == Done(r.data, r.reply)

cmd_step(c, st, d, t) ==
    IF c.name = N_SET THEN cmd_set_step(c, st, d, t)
    ELSE IF c.name = N_HSET THEN cmd_hset_step(c, st, d, t)
    ELSE AsDone(single_call(c, d, t))

\* execute: the whole handler with no other task between its keyspace calls
RECURSIVE run(_, _, _, _)
run_on(c, r, t) ==
    IF r.reply # None THEN [data |-> r.data, reply |-> Unwrap(r.reply)]
    ELSE run(c, r.st, r.data, t)
run(c, st, d, t) == run_on(c, cmd_step(c, st, d, t), t)

execute(c, d, t) == run(c, Start, d, t)

-----------------------------------------------------------------------------
(* What each specification leaves alone *)

IdleCodec ==
    /\ cframe = Simple(<<>>) /\ cbytes = <<>> /\ cresult = Err("idle") /\ cprev = Err("idle")
    /\ cpc = "idle"
IdleSess ==
    /\ items = <<>> /\ stream = <<>> /\ accumulated = <<>>
    /\ written = <<>> /\ pc = "idle" /\ errAt = -1
IdleConc ==
    /\ cmd = <<>> /\ cpos = <<>> /\ reply = <<>> /\ data0 = EmptyMap
IdleRun ==
    /\ lastCmd = None /\ lastReply = None /\ dataNS = EmptyMap /\ lastReplyNS = None
    /\ given = EmptyMap /\ prevGiven = EmptyMap /\ held = EmptyMap
    /\ logical = <<>> /\ expected = None

-----------------------------------------------------------------------------
(* SpecCodec: encode_resp and parse as pure functions.  A frame in         *)
(* canonical form is drawn, encoded, and the encoding is parsed.           *)

SeqsUpTo(S, n) == UNION {[1..k -> S] : k \in 0..n}

SampleTexts == {<<>>, <<"O", "K">>, <<"E", "R", "R">>, <<"a", " ", "b">>, <<"-", "1">>}
SampleInts == {I64_MIN, -10, -1, 0, 7, 10, 42, I64_MAX}
SamplePayloads ==
    {<<>>, <<"a">>, CRLF, <<"a", CR, LF, "b">>, <<"$", "1", CR, LF>>, <<"+", "O", "K", CR>>,
     <<"h", "e", "l", "l", "o">>, <<"h", "e", "l", "l", "o", " ", "w", "o", "r", "l", "d">>}
Leaves ==
    {Simple(s) : s \in SampleTexts} \cup {Error(s) : s \in SampleTexts}
    \cup {Integer(n) : n \in SampleInts} \cup {Bulk(Some(b)) : b \in SamplePayloads}
    \cup {Bulk(None), Array(None)}
NestedItems ==
    {Array(Some(<<>>)), Array(Some(<<Integer(1), Bulk(None)>>)), Array(None),
     Bulk(Some(<<"a">>)), Array(Some(<<Array(Some(<<Simple(<<"O", "K">>)>>))>>))}
CanonicalFrames ==
    Leaves \cup {Array(Some(s)) : s \in SeqsUpTo(Leaves, MaxArr)}
    \cup {Array(Some(s)) : s \in SeqsUpTo(NestedItems, MaxArr)}

InitCodec ==
    /\ overflow_checks \in BOOLEAN
    /\ cframe \in CanonicalFrames
    /\ cbytes = <<>> /\ cresult = Err("not run") /\ cprev = Err("not run") /\ cpc = "init"
    /\ data = EmptyMap /\ now = 0
    /\ IdleSess /\ IdleConc /\ IdleRun

Encode ==
    /\ cpc = "init"
    /\ cbytes' = encode_resp(cframe)
    /\ cpc' = "encoded"
    /\ UNCHANGED <<overflow_checks, cframe, cresult, cprev, data, now, sessVars, concVars, runVars>>

Decode ==
    /\ cpc = "encoded"
    /\ cresult' = parse(cbytes)
    /\ cpc' = "parsed"
    /\ UNCHANGED <<overflow_checks, cframe, cbytes, cprev, data, now, sessVars, concVars, runVars>>

NextCodec == Encode \/ Decode

SpecCodec == InitCodec /\ [][NextCodec]_vars

\* C10: round trip.  For every frame f in canonical form, parse(encode_resp(f))
\* succeeds and returns f together with the length of encode_resp(f).
C10_RoundTrip ==
    cpc = "parsed" => cresult = Ok(cframe, Len(cbytes))

\* a nested array holding a null bulk and a bulk has been encoded and parsed back
C10_Witness ==
    /\ cpc = "parsed"
    /\ cframe = Array(Some(<<Array(Some(<<Integer(1), Bulk(None)>>)), Bulk(Some(<<"a">>))>>))
    /\ cresult.k = "Ok"
    /\ Len(cbytes) > 0

\* The wire grammar, written down on its own.  decimal(n): the digits of |n|
\* by place value, most significant first, no leading zero, '-' before them
\* when n is negative.
Pow10(k) == IF k = 0 THEN 1 ELSE IF k = 1 THEN 10 ELSE IF k = 2 THEN 100
            ELSE IF k = 3 THEN 1000 ELSE IF k = 4 THEN 10000 ELSE 100000
NumDigits(n) == CHOOSE k \in 1..5 : n < Pow10(k) /\ (k > 1 => n >= Pow10(k - 1))
PlaceDigits(n) == [i \in 1..NumDigits(n) |-> Digits[((n \div Pow10(NumDigits(n) - i)) % 10) + 1]]
Decimal(n) == IF n < 0 THEN <<"-">> \o PlaceDigits(-n) ELSE PlaceDigits(n)
RECURSIVE Grammar(_)
GrammarChildren(fs) == Concat([i \in 1..Len(fs) |-> Grammar(fs[i])])
Grammar(f) ==
    CASE f.t = "Simple"  -> <<"+">> \o f.s \o <<CR, LF>>
      [] f.t = "Error"   -> <<"-">> \o f.s \o <<CR, LF>>
      [] f.t = "Integer" -> <<":">> \o Decimal(f.n) \o <<CR, LF>>
      [] f.t = "Bulk" /\ f.o = <<>> -> <<"$", "-", "1", CR, LF>>
      [] f.t = "Bulk" /\ f.o # <<>> ->
            <<"$">> \o Decimal(Len(f.o[1])) \o <<CR, LF>> \o f.o[1] \o <<CR, LF>>
      [] f.t = "Array" /\ f.a = <<>> -> <<"*", "-", "1", CR, LF>>
      [] f.t = "Array" /\ f.a # <<>> ->
            <<"*">> \o Decimal(Len(f.a[1])) \o <<CR, LF>> \o GrammarChildren(f.a[1])

\* C12: encode_resp writes every frame by the wire grammar: the type byte,
\* the text or the decimal of the integer / byte length / child count, CR LF,
\* then the payload and CR LF for a bulk and the children in order for an
\* array; $-1 and *-1 for the null bulk and the null array.
C12_EncodesByGrammar ==
    cpc \in {"encoded", "parsed"} => cbytes = Grammar(cframe)

\* an array of the integer 42 and the bulk hello has been encoded
C12_Witness ==
    /\ cpc = "encoded"
    /\ cframe = Array(Some(<<Integer(42), Bulk(Some(<<"h", "e", "l", "l", "o">>))>>))
    /\ cbytes = <<"*", "2", CR, LF, ":", "4", "2", CR, LF,
                  "$", "5", CR, LF, "h", "e", "l", "l", "o", CR, LF>>

-----------------------------------------------------------------------------
(* SpecPrefix: parse on arbitrary byte buffers, and again after more bytes *)
(* have arrived behind them.                                               *)

\* the buffers: up to MaxPieces pieces, one after the other
Pieces ==
    {<<"$", "1", CR, LF>>, <<"$", "2", CR, LF>>, <<"$", "-", "1", CR, LF>>,
     <<"$", "-", "2", CR, LF>>, <<"*", "1", CR, LF>>, <<"*", "2", CR, LF>>,
     <<"*", "0", CR, LF>>, <<"*", "-", "1", CR, LF>>, <<"*", "-", "2", CR, LF>>,
     <<":", "1", CR, LF>>,
     <<"a">>, <<CR>>, <<LF>>, CRLF}
MaxPieces == 3
Buffers == {Concat(ps) : ps \in SeqsUpTo(Pieces, MaxPieces)}

InitPrefix ==
    /\ overflow_checks \in BOOLEAN
    /\ cbytes \in Buffers
    /\ cframe = Simple(<<>>) /\ cresult = Err("not run") /\ cprev = Err("not run")
    /\ cpc = "init"
    /\ data = EmptyMap /\ now = 0
    /\ IdleSess /\ IdleConc /\ IdleRun

\* parse(&accumulated) on the buffer as it is
ParseBuffer ==
    /\ cpc = "init"
    /\ cresult' = parse(cbytes)
    /\ cprev' = cresult
    /\ cpc' = "parsed"
    /\ UNCHANGED <<overflow_checks, cframe, cbytes, data, now, sessVars, concVars, runVars>>

\* more bytes arrive behind the buffer (accumulated.extend_from_slice) and the
\* whole buffer is parsed again
Extend ==
    /\ cpc = "parsed"
    /\ \E suffix \in Pieces :
          /\ cbytes' = cbytes \o suffix
          /\ cresult' = parse(cbytes')
    /\ cprev' = cresult
    /\ cpc' = "extended"
    /\ UNCHANGED <<overflow_checks, cframe, data, now, sessVars, concVars, runVars>>

NextPrefix == ParseBuffer \/ Extend

SpecPrefix == InitPrefix /\ [][NextPrefix]_vars

\* C11: a decode that succeeded consumes no more bytes than the buffer holds,
\* and parse returns the same frame and the same count after any bytes are
\* appended to the buffer.
C11_PrefixDeterministic ==
    /\ (cpc \in {"parsed", "extended"} /\ cresult.k = "Ok") => cresult.used <= Len(cbytes)
    /\ (cpc = "extended" /\ cprev.k = "Ok") => cresult = cprev

\* a bulk of one byte whose terminator bytes are not CR LF was decoded, and
\* decoded again with more bytes behind it
C11_Witness ==
    /\ cpc = "extended"
    /\ cprev = Ok(Bulk(Some(<<"a">>)), 7)
    /\ cresult = cprev
    /\ cbytes = <<"$", "1", CR, LF, "a", ":", "1", CR, LF, "a">>

Parsed == cpc \in {"parsed", "extended"}
StartsWith(bytes, head) == Len(bytes) >= Len(head) /\ SubSeq(bytes, 1, Len(head)) = head

\* C34: a buffer that starts with a bulk header of length L >= 0 decodes to
\* a bulk only when the two bytes after the L payload bytes are CR LF.
C34_BulkNeedsTerminator ==
    (Parsed /\ cresult.k = "Ok" /\ cresult.resp.t = "Bulk" /\ cresult.resp.o # None) =>
        /\ cbytes[cresult.used - 1] = CR
        /\ cbytes[cresult.used] = LF

\* the same, for the bulks decoded from a buffer that holds CR LF there
C34_BulkWithTerminator ==
    (Parsed /\ StartsWith(cbytes, <<"$", "1", CR, LF, "a", CR, LF>>)) =>
        cresult = Ok(Bulk(Some(<<"a">>)), 7)

NegativeHeaders == {<<"$", "-", "2", CR, LF>>, <<"*", "-", "2", CR, LF>>}

\* C35: a buffer that starts with a bulk or array header whose length is
\* negative and not -1 decodes to an error returned as a value: no frame,
\* no abnormal end.
C35_NegativeLengthMalformed ==
    (Parsed /\ \E h \in NegativeHeaders : StartsWith(cbytes, h)) => cresult.k = "Err"

\* the same, for the headers of length -1, which decode to the null frames
C35_MinusOneIsNull ==
    /\ (Parsed /\ StartsWith(cbytes, <<"$", "-", "1", CR, LF>>)) => cresult = Ok(Bulk(None), 5)
    /\ (Parsed /\ StartsWith(cbytes, <<"*", "-", "1", CR, LF>>)) => cresult = Ok(Array(None), 5)

-----------------------------------------------------------------------------
(* SpecSession: one session of handle_client (main.rs) over the keyspace.  *)
(* The client sends the items of a program one after the other; the socket *)
(* delivers the bytes in reads of any size.                                *)

\* what the client puts on the wire: the bytes, the command they mean to the
\* client (for a request), and what kind of item it is
Req(parts) == Array(Some([i \in 1..Len(parts) |-> Bulk(Some(parts[i]))]))
Item(bytes, c, kind) == [bytes |-> bytes, cmd |-> c, kind |-> kind]
NoCommand == Command(<<>>, <<>>)

K1 == <<"k">>
PoolCommands ==
    {Item(encode_resp(Simple(N_PING)), Command(N_PING, <<>>), "cmd"),
     Item(encode_resp(Req(<<N_SET, K1, <<"7">>>>)), Command(N_SET, <<K1, <<"7">>>>), "cmd"),
     Item(encode_resp(Simple(<<"G", "E", "T", " ", "k">>)), Command(N_GET, <<K1>>), "cmd"),
     Item(encode_resp(Simple(<<"i", "n", "c", "r", " ", " ", "k">>)), Command(N_INCR, <<K1>>), "cmd"),
     Item(encode_resp(Req(<<<<"N", "O">>>>)), Command(<<"N", "O">>, <<>>), "cmd"),
     Item(encode_resp(Req(<<N_ECHO, CRLF>>)), Command(N_ECHO, <<CRLF>>), "cmd")}
PoolQuit ==
    {Item(encode_resp(Req(<<<<"q", "u", "i", "t">>>>)), Command(N_QUIT, <<>>), "quit"),
     Item(encode_resp(Simple(<<"Q", "u", "i", "t">>)), Command(N_QUIT, <<>>), "quit")}
\* frames that decode but are no command
PoolBadFrames ==
    {Item(encode_resp(Integer(1)), NoCommand, "badframe"),
     Item(encode_resp(Array(None)), NoCommand, "badframe"),
     Item(encode_resp(Array(Some(<<Array(Some(<<>>)), Bulk(None)>>))), NoCommand, "badframe")}
\* bytes that are no frame: an unknown type byte, a non-numeric length line
PoolGarbage ==
    {Item(<<"x", CR, LF>>, NoCommand, "garbage"),
     Item(<<"$", "x", CR, LF>>, NoCommand, "garbage")}
Pool == PoolCommands \cup PoolQuit \cup PoolBadFrames \cup PoolGarbage

\* longest program
MaxItems == 2
Programs == UNION {[1..n -> Pool] : n \in 1..MaxItems}

AllBytes(its) == Concat([i \in 1..Len(its) |-> its[i].bytes])

\* a socket that puts each reply before the earlier ones
WritePrepend(w, bytes) == bytes \o w
\* stream.write_all(&encoded)
socket_write(w, bytes) == w \o bytes
\* faulty variant: the whole buffer is dropped with the frame
DrainAll(acc, consumed) == <<>>
\* accumulated.drain(..consumed)
drain(acc, consumed) == SliceFrom(acc, consumed)

InitSession ==
    /\ overflow_checks \in BOOLEAN
    /\ items \in Programs
    /\ stream = AllBytes(items)
    /\ accumulated = <<>> /\ written = <<>> /\ pc = "reading" /\ errAt = -1
    /\ data = EmptyMap /\ now = 0
    /\ IdleCodec /\ IdleConc /\ IdleRun

\* stream.read returns Ok(n), n > 0: the bytes are appended to accumulated
Read ==
    /\ pc = "reading"
    /\ \E n \in 1..Len(stream) :
          /\ accumulated' = accumulated \o SubSeq(stream, 1, n)
          /\ stream' = SliceFrom(stream, n)
    /\ pc' = "processing"
    /\ UNCHANGED <<overflow_checks, codecVars, data, now, items, written, errAt, concVars, runVars>>

\* stream.read returns Ok(0): the client has sent everything and closed
ReadEof ==
    /\ pc = "reading" /\ stream = <<>>
    /\ pc' = "closed_eof"
    /\ UNCHANGED <<overflow_checks, codecVars, data, now, items, stream, accumulated, written,
                   errAt, concVars, runVars>>

\* stream.read returns Err
ReadFails ==
    /\ pc = "reading"
    /\ pc' = "closed_ioerr"
    /\ UNCHANGED <<overflow_checks, codecVars, data, now, items, stream, accumulated, written,
                   errAt, concVars, runVars>>

\* encode the response and write it; a failed write ends the session.  A
\* panic of the handler ends the task with nothing written.
Respond(x, isErr) ==
    /\ data' = x.data
    /\ IF x.reply = PanicReply
       THEN pc' = "panicked" /\ written' = written /\ errAt' = errAt
       ELSE \/ /\ written' = socket_write(written, encode_resp(x.reply))
               /\ pc' = pc
               /\ errAt' = IF isErr /\ errAt < 0 THEN Len(written') ELSE errAt
            \/ /\ written' = written /\ pc' = "closed_ioerr" /\ errAt' = errAt

\* QUIT: +OK is written, the result of the write is dropped, the task returns
Quit ==
    /\ \/ written' = socket_write(written, encode_resp(OK)) /\ pc' = "closed_quit"
       \/ written' = written /\ pc' = "closed_ioerr"
    /\ UNCHANGED <<data, errAt>>

\* the match on Command::from_resp
Dispatch(c) ==
    IF c.ok /\ c.v.name = N_QUIT THEN Quit
    ELSE Respond(IF c.ok THEN execute(c.v, data, now)
                 ELSE [data |-> data, reply |-> Error(c.e)], ~c.ok)

\* the match on parse(&accumulated): every Err is taken as incomplete data
OnParse(r) ==
    IF accumulated = <<>> \/ r.k = "Err"
    THEN pc' = "reading" /\ UNCHANGED <<accumulated, written, data, errAt>>
    ELSE IF r.k = "Panic"
    THEN pc' = "panicked" /\ UNCHANGED <<accumulated, written, data, errAt>>
    ELSE /\ accumulated' = drain(accumulated, r.used)
         /\ Dispatch(from_resp(r.resp))

\* one turn of the inner loop: parse the head of accumulated, drain it,
\* normalize, execute, encode, write
Process ==
    /\ pc = "processing"
    /\ OnParse(parse(accumulated))
    /\ UNCHANGED <<overflow_checks, codecVars, now, items, stream, concVars, runVars>>

NextSession == Read \/ ReadEof \/ ReadFails \/ Process

SpecSession == InitSession /\ [][NextSession]_vars

\* The reference: the items of a program executed one after the other, each
\* command whole, the replies concatenated.  It does not go through the
\* buffer, the decoder or Command::from_resp.
RefEmit(w, x) == [data |-> x.data, written |-> w \o encode_resp(x.reply)]
RefNext(prev, it) == RefEmit(prev.written, execute(it.cmd, prev.data, 0))
RECURSIVE Ref(_, _)
Ref(its, k) ==
    IF k = 0 THEN [data |-> EmptyMap, written |-> <<>>]
    ELSE RefNext(Ref(its, k - 1), its[k])

\* bytes of the first j items; bytes received so far; items wholly received
Offset(its, j) == Len(AllBytes(SubSeq(its, 1, j)))
Received == Len(AllBytes(items)) - Len(stream)
CompleteItems(its, n) == Cardinality({j \in 1..Len(its) : Offset(its, j) <= n})
AllCmd(its, k) == \A i \in 1..k : its[i].kind = "cmd"

\* the session has answered exactly the first j commands, in order, and holds
\* the received bytes that follow them
Answered(j) ==
    /\ written = Ref(items, j).written
    /\ data = Ref(items, j).data
    /\ accumulated = SubSeq(AllBytes(items), Offset(items, j) + 1, Received)

\* C1: in a session that receives complete command frames (in one read or in
\* several) and meets no I/O error, the bytes written are the encoded replies
\* of the first j commands in order, for some j up to the number of commands
\* wholly received; when the session issues its next read (or has met end of
\* stream) j is that number: every received command is answered, once, in
\* request order, before the next read.
C1_RepliesInOrder ==
    (AllCmd(items, Len(items)) /\ pc \in {"reading", "processing", "closed_eof"}) =>
        \E j \in 0..CompleteItems(items, Received) :
            /\ Answered(j)
            /\ (pc # "processing" => j = CompleteItems(items, Received))

C1_Witness ==
    /\ Len(items) = 2 /\ AllCmd(items, 2)
    /\ items[1].cmd.name = N_SET /\ items[2].cmd.name = N_GET
    /\ pc = "reading" /\ stream = <<>>
    /\ written = encode_resp(OK) \o encode_resp(Bulk(Some(<<"7">>)))

\* the errors of parse that say the bytes at the head are no frame, as against
\* those that say the frame is not all there yet
MalformedErrors == {"unknown type", "utf8", "parse int", "parse len"}
IsMalformed(r) == r.k = "Err" /\ r.e \in MalformedErrors
MalformedHead(acc) == acc # <<>> /\ IsMalformed(parse(acc))

\* C4: a session whose buffer starts with malformed bytes does not go back to
\* waiting for more bytes (it writes an error reply and closes).
C4_MalformedCloses == ~(pc = "reading" /\ MalformedHead(accumulated))

\* C5: after the reply to a decoded frame that is no command the session
\* writes nothing more and does not read again.
C5_ProtocolErrorCloses ==
    errAt >= 0 => (Len(written) = errAt /\ pc # "reading")

\* position of the first QUIT of a program, 0 when it has none
FirstQuit(its) ==
    IF \E i \in 1..Len(its) : its[i].kind = "quit"
    THEN CHOOSE i \in 1..Len(its) :
            its[i].kind = "quit" /\ \A j \in 1..(i - 1) : its[j].kind # "quit"
    ELSE 0
QuitAfterCommands(its) == FirstQuit(its) > 0 /\ AllCmd(its, FirstQuit(its) - 1)
QuitReceived == CompleteItems(items, Received) >= FirstQuit(items)
AnsweredQuit(q) ==
    /\ written = Ref(items, q - 1).written \o encode_resp(OK)
    /\ data = Ref(items, q - 1).data

\* C6: in a session whose first QUIT (in any letter case, array or inline)
\* follows commands only: the session ended by QUIT has written the replies
\* of the earlier commands and then +OK, and the keyspace is as those commands
\* left it; before that the session has answered some of the earlier commands
\* and nothing else; and once QUIT is wholly received the session does not
\* read again: what follows QUIT is never executed or answered.
C6_QuitEnds ==
    QuitAfterCommands(items) =>
        /\ pc = "closed_quit" => AnsweredQuit(FirstQuit(items))
        /\ pc # "closed_quit" =>
              \E j \in 0..(FirstQuit(items) - 1) :
                  written = Ref(items, j).written /\ data \in {Ref(items, j).data, Ref(items, j+1).data}
        /\ pc \in {"reading", "closed_eof"} => ~QuitReceived

C6_Witness ==
    /\ Len(items) = 2 /\ items[1].kind = "quit" /\ items[2].cmd.name = N_SET
    /\ items[1].bytes = encode_resp(Req(<<<<"q", "u", "i", "t">>>>))
    /\ pc = "closed_quit" /\ stream = <<>>
    /\ written = encode_resp(OK) /\ data = EmptyMap

\* The inner loop of handle_client run on a buffer that arrived in one read:
\* parse, drain, execute, write, until the buffer is empty, its head is not
\* a whole frame, QUIT is met or the handler panics.  No write fails.
RECURSIVE InOneRead(_, _, _)
InOneRead(acc, d, w) ==
    LET r == parse(acc) IN
    IF acc = <<>> \/ r.k = "Err" THEN [acc |-> acc, data |-> d, written |-> w, pc |-> "reading"]
    ELSE IF r.k = "Panic" THEN [acc |-> acc, data |-> d, written |-> w, pc |-> "panicked"]
    ELSE LET c == from_resp(r.resp) IN
         IF c.ok /\ c.v.name = N_QUIT
         THEN [acc |-> drain(acc, r.used), data |-> d,
               written |-> socket_write(w, encode_resp(OK)), pc |-> "closed_quit"]
         ELSE LET x == IF c.ok THEN execute(c.v, d, 0) ELSE [data |-> d, reply |-> Error(c.e)] IN
              IF x.reply = PanicReply
              THEN [acc |-> drain(acc, r.used), data |-> x.data, written |-> w, pc |-> "panicked"]
              ELSE InOneRead(drain(acc, r.used), x.data, socket_write(w, encode_resp(x.reply)))

WellFormed(its) == \A i \in 1..Len(its) : its[i].kind \in {"cmd", "quit"}
ReceivedBytes == SubSeq(AllBytes(items), 1, Received)
Whole == InOneRead(ReceivedBytes, EmptyMap, <<>>)

\* C36: in a session fed commands only (QUIT among them), however the bytes
\* are cut into reads: when the session waits for the next read, has met
\* end of stream or has ended on QUIT, the replies written, the keyspace
\* and the bytes kept in the buffer are those the bytes received so far
\* give when they arrive in one read; the bytes kept are exactly the
\* received part of the first frame not yet whole, and no reply has been
\* written for it.
C36_SplitIndependent ==
    (WellFormed(items) /\ pc \in {"reading", "closed_eof", "closed_quit"}) =>
        /\ written = Whole.written
        /\ data = Whole.data
        /\ accumulated = Whole.acc
        /\ pc \in {"reading", "closed_eof"} =>
              /\ accumulated = SubSeq(AllBytes(items), Offset(items, CompleteItems(items, Received)) + 1, Received)
              /\ written = Ref(items, CompleteItems(items, Received)).written

\* SET k 7 is answered; of ECHO with a payload of CR LF the bytes up to the
\* CR of the payload have arrived and are kept, with no reply for it
C36_Witness ==
    /\ Len(items) = 2
    /\ items[1].cmd.name = N_SET /\ items[2].cmd.name = N_ECHO
    /\ pc = "reading" /\ Len(stream) = 3
    /\ accumulated = <<"*", "2", CR, LF, "$", "4", CR, LF, "E", "C", "H", "O", CR, LF,
                        "$", "2", CR, LF, CR>>
    /\ written = encode_resp(OK)

-----------------------------------------------------------------------------
(* SpecConc: sessions (tokio tasks) that each execute one command against  *)
(* the shared keyspace.  Every Storage method takes the map's lock for its *)
(* own duration only, so the tasks interleave between two keyspace calls   *)
(* of a handler.                                                           *)

NSessions == 2
Sess == 1..NSessions

SetCmd(value, opts) == Command(N_SET, <<K1, value>> \o opts)
IncrBy1 == Command(N_INCRBY, <<K1, <<"1">>>>)
ConcPool ==
    {SetCmd(<<"a">>, <<T_NX>>), SetCmd(<<"b">>, <<T_NX>>), SetCmd(<<"c">>, <<T_XX>>),
     SetCmd(<<"d">>, <<N_GET>>), SetCmd(<<"e">>, <<N_GET>>),
     Command(N_DEL, <<K1>>), Command(N_GET, <<K1>>), IncrBy1}
StringAt(value) == Insert(EmptyMap, K1, Entry_new(VString(value)))
ConcKeyspaces == {EmptyMap, StringAt(<<"5">>), StringAt(<<"-", "1">>), StringAt(<<"x">>)}

InitConc ==
    /\ overflow_checks \in BOOLEAN
    /\ cmd \in [Sess -> ConcPool]
    /\ data0 \in ConcKeyspaces
    /\ data = data0 /\ now = 0
    /\ cpos = [s \in Sess |-> Start]
    /\ reply = [s \in Sess |-> None]
    /\ IdleCodec /\ IdleSess /\ IdleRun

\* what a step of session s leaves behind
Stepped(s, r) ==
    /\ data' = r.data
    /\ cpos' = [cpos EXCEPT ![s] = r.st]
    /\ reply' = [reply EXCEPT ![s] = r.reply]

\* session s runs its handler up to and including its next keyspace call
Call(s) ==
    /\ reply[s] = None
    /\ Stepped(s, cmd_step(cmd[s], cpos[s], data, now))
    /\ UNCHANGED <<overflow_checks, codecVars, now, sessVars, cmd, data0, runVars>>

NextConc == \E s \in Sess : Call(s)

SpecConc == InitConc /\ [][NextConc]_vars

AllDone == \A s \in Sess : reply[s] # None
Orders == {p \in [Sess -> Sess] : \A a, b \in Sess : p[a] = p[b] => a = b}

\* the commands executed whole, one after the other, in the order p
RECURSIVE SeqData(_, _)
SeqData(p, i) ==
    IF i = 0 THEN data0 ELSE execute(cmd[p[i]], SeqData(p, i - 1), now).data
SeqReply(p, i) == execute(cmd[p[i]], SeqData(p, i - 1), now).reply
Explains(p) ==
    /\ data = SeqData(p, NSessions)
    /\ \A i \in Sess : reply[p[i]] = Some(SeqReply(p, i))

\* C2: the replies and the final keyspace of concurrently executed commands
\* are those of the whole commands executed in some sequential order.
C2_Linearizable == AllDone => \E p \in Orders : Explains(p)

AllIncr == \A s \in Sess : cmd[s] = IncrBy1
StartsAtInteger == get(data0, K1, now) \in {None, Some(<<"5">>), Some(<<"-", "1">>)}
V0 == IF get(data0, K1, now) = None THEN 0 ELSE Unwrap(parse_i64(Unwrap(get(data0, K1, now))))
Finished == {s \in Sess : reply[s] # None}
NDone == Cardinality(Finished)

\* C3: sessions that each execute INCRBY k 1 on a key holding the integer v
\* (or absent, v = 0): after n of them have replied, in every interleaving,
\* the stored value is the decimal text of v+n and the replies are the n
\* distinct integers v+1 .. v+n; with all N done the value is v+N.
C3_NoLostUpdate ==
    (AllIncr /\ StartsAtInteger) =>
        /\ NDone > 0 => get(data, K1, now) = Some(to_string(V0 + NDone))
        /\ {Unwrap(reply[s]) : s \in Finished} = {Integer(V0 + i) : i \in 1..NDone}

C3_Witness ==
    /\ AllIncr /\ AllDone
    /\ data0 = StringAt(<<"5">>)
    /\ data = StringAt(to_string(5 + NSessions))
    /\ {Unwrap(reply[s]) : s \in Sess} = {Integer(5 + i) : i \in 1..NSessions}

-----------------------------------------------------------------------------
(* SpecStore: commands executed one at a time against the keyspace while   *)
(* time passes and the sweeper task (main.rs) runs at arbitrary points.    *)
(* The same commands at the same instants are also executed against        *)
(* dataNS, a keyspace on which the sweeper is never invoked.               *)

K2 == <<"j">>
V1 == <<"v">>
Sec1 == <<"1">>

W1 == <<"w">>

\* what the client issues: the command, the key it names, the expiry in ms
\* it gives that key (-1: none), whether it writes the key, and the string
\* value it stores (None: none)
Issue(c, key, gives, writes, stores) ==
    [cmd |-> c, key |-> key, gives |-> gives, writes |-> writes, stores |-> stores]
Sets(c, key, value, ms) == Issue(c, key, ms, TRUE, Some(value))
Gives(c, ms) == Issue(c, K1, ms, TRUE, None)
Writes(c, key) == Issue(c, key, -1, TRUE, None)
Reads(c) == Issue(c, K1, -1, FALSE, None)
SetKeepTtl == Command(N_SET, <<K1, V1, T_KEEPTTL>>)
PlainSets == {Command(N_SET, <<K1, V1>>), SetKeepTtl}
DelK1 == Command(N_DEL, <<K1>>)
StorePool ==
    {Sets(Command(N_SET, <<K1, V1, T_PX, <<"1">>>>), K1, V1, 1),
     Sets(Command(N_SET, <<K1, V1, T_EX, Sec1>>), K1, V1, 1000),
     Sets(Command(N_SETEX, <<K1, Sec1, W1>>), K1, W1, 1000),
     Sets(Command(N_PSETEX, <<K1, <<"2">>, V1>>), K1, V1, 2),
     Sets(Command(N_SET, <<K1, V1>>), K1, V1, -1),
     Sets(SetKeepTtl, K1, V1, -1),
     Sets(Command(N_SET, <<K1, W1, T_NX>>), K1, W1, -1),
     Sets(Command(N_SET, <<K2, V1>>), K2, V1, -1),
     Writes(Command(N_FLUSHDB, <<>>), K1),
     Gives(Command(N_EXPIRE, <<K1, Sec1>>), 1000),
     Gives(Command(N_PEXPIRE, <<K1, <<"1">>>>), 1),
     Writes(Command(N_INCRBY, <<K1, <<"0">>>>), K1),
     Writes(Command(N_LPUSH, <<K1, <<"a">>>>), K1),
     Writes(Command(N_SADD, <<K1, <<"a">>>>), K1),
     Writes(Command(N_HSET, <<K1, <<"f">>, V1>>), K1),
     Writes(Command(N_PERSIST, <<K1>>), K1),
     Writes(DelK1, K1),
     Writes(Command(N_DEL, <<K2, K1>>), K1),
     Reads(Command(N_GET, <<K1>>)),
     Reads(Command(N_EXISTS, <<K1, K2>>)),
     Reads(Command(N_DBSIZE, <<>>)),
     Reads(Command(N_TTL, <<K1>>)),
     Reads(Command(N_LLEN, <<K1>>))}

\* the instants at which something happens
Instants == {0, 1, 2, 1000, 1001, 2000}
\* longest list
MaxList == 1
ListRoom(d, key, t) == IF llen(d, key, t).ok THEN llen(d, key, t).v < MaxList ELSE TRUE

InitStore ==
    /\ overflow_checks \in BOOLEAN
    /\ data = EmptyMap /\ dataNS = EmptyMap /\ now = 0
    /\ lastCmd = None /\ lastReply = None /\ lastReplyNS = None
    /\ given = EmptyMap /\ prevGiven = EmptyMap /\ held = EmptyMap
    /\ logical = <<>> /\ expected = None
    /\ IdleCodec /\ IdleSess /\ IdleConc

\* the command succeeded in giving its key an expiry
Gave(it, r) == it.gives >= 0 /\ r \in {OK, Integer(1)}
\* what the reply tells the client: the command changed nothing (an error, a
\* skipped SET, or a count of 0 from a command that counts what it changed)
NoEffect(it, r) ==
    \/ r.t = "Error"
    \/ r = NullBulk
    \/ r = Integer(0) /\ it.cmd.name # N_INCRBY
\* the keys the command writes
Touched(it) ==
    IF it.cmd.name = N_DEL THEN {it.cmd.args[i] : i \in 1..Len(it.cmd.args)}
    ELSE IF it.cmd.name = N_FLUSHDB THEN {K1, K2}
    ELSE {it.key}
Without(m, ks) == [k \in (DOMAIN m) \ ks |-> m[k]]
Executed(it, x, y) ==
    /\ data' = x.data /\ dataNS' = y.data
    /\ lastCmd' = Some(it.cmd)
    /\ lastReply' = Some(x.reply) /\ lastReplyNS' = Some(y.reply)
    /\ UNCHANGED <<logical, expected>>
    /\ prevGiven' = given
    /\ given' = IF NoEffect(it, x.reply) \/ ~it.writes THEN given
                ELSE IF Gave(it, x.reply) THEN Insert(given, it.key, now + it.gives)
                ELSE Without(given, Touched(it))
    /\ held' = IF NoEffect(it, x.reply) \/ ~it.writes THEN held
               ELSE IF it.stores # None THEN Insert(held, it.key, Unwrap(it.stores))
               ELSE IF it.gives >= 0 \/ it.cmd.name = N_PERSIST THEN held
               ELSE Without(held, Touched(it))

\* one command, executed whole
Exec ==
    /\ \E it \in StorePool :
          /\ it.cmd.name = N_LPUSH => ListRoom(data, it.key, now) /\ ListRoom(dataNS, it.key, now)
          /\ Executed(it, execute(it.cmd, data, now), execute(it.cmd, dataNS, now))
    /\ UNCHANGED <<overflow_checks, codecVars, now, sessVars, concVars>>

\* time passes
Tick ==
    /\ \E t \in Instants : t > now /\ now' = t
    /\ lastCmd' = None /\ lastReply' = None /\ lastReplyNS' = None /\ prevGiven' = EmptyMap
    /\ UNCHANGED <<overflow_checks, codecVars, data, dataNS, given, held, logical, expected, sessVars, concVars>>

\* the sweeper task: storage.run_expiry_cleanup()
Sweep ==
    /\ data' = run_expiry_cleanup(data, now)
    /\ lastCmd' = None /\ lastReply' = None /\ lastReplyNS' = None /\ prevGiven' = EmptyMap
    /\ UNCHANGED <<overflow_checks, codecVars, now, dataNS, given, held, logical, expected, sessVars, concVars>>

NextStore == Exec \/ Tick \/ Sweep

SpecStore == InitStore /\ [][NextStore]_vars

\* every reader answers on d as it answers when the key is not in the map
ReadsAsAbsent(d, key, t) ==
    /\ cmd_get(Command(N_GET, <<key>>), d, t).reply = NullBulk
    /\ cmd_mget(Command(N_MGET, <<key>>), d, t).reply = Array(Some(<<NullBulk>>))
    /\ cmd_exists(Command(N_EXISTS, <<key>>), d, t).reply = Integer(0)
    /\ cmd_type(Command(N_TYPE, <<key>>), d, t).reply = Simple(<<"n", "o", "n", "e">>)
    /\ cmd_ttl(Command(N_TTL, <<key>>), d, t).reply = Integer(-2)
    /\ cmd_pttl(Command(N_PTTL, <<key>>), d, t).reply = Integer(-2)
    /\ key \notin keys(d, <<"*">>, t)
    /\ dbsize(d, t) = dbsize(Remove(d, key), t)
    /\ strlen(d, key, t) = ROk(0)
    /\ cmd_llen(Command(N_LLEN, <<key>>), d, t).reply = Integer(0)
    /\ lrange(d, key, 0, -1, t) = ROk(<<>>)
    /\ lindex(d, key, 0, t) = lindex(Remove(d, key), key, 0, t)
    /\ cmd_scard(Command(N_SCARD, <<key>>), d, t).reply = Integer(0)
    /\ smembers(d, key, t) = smembers(Remove(d, key), key, t)
    /\ sismember(d, key, <<"a">>, t) = ROk(FALSE)
    /\ cmd_hlen(Command(N_HLEN, <<key>>), d, t).reply = Integer(0)
    /\ cmd_hget(Command(N_HGET, <<key, <<"f">>>>), d, t).reply = NullBulk
    /\ hgetall(d, key, t) = hgetall(Remove(d, key), key, t)
    /\ hexists(d, key, <<"f">>, t) = ROk(FALSE)
    /\ hkeys(d, key, t) = hkeys(Remove(d, key), key, t)
    /\ hvals(d, key, t) = hvals(Remove(d, key), key, t)

Due == {key \in DOMAIN given : now >= given[key]}

\* C7: a key given an expiry of t at the instant n and not written since is
\* reported absent by every reader at every instant from n+t on, on the
\* keyspace the sweeper runs on and on the one it never runs on.
C7_ExpiredReadsAbsent ==
    \A key \in Due : ReadsAsAbsent(data, key, now) /\ ReadsAsAbsent(dataNS, key, now)

\* an expired list is still in the map that is never swept, at the very
\* instant of its expiry, and is swept from the other one
C7_Witness ==
    /\ K1 \in Due /\ now = given[K1]
    /\ K1 \in DOMAIN dataNS /\ dataNS[K1].value.t = "List"
    /\ K1 \notin DOMAIN data

\* the named keys that are in the map and not logically expired
LiveNamed(d, ks, t) ==
    Cardinality({key \in {ks[i] : i \in 1..Len(ks)} : key \in DOMAIN d /\ ~is_expired(d[key], t)})
IsDel(oc) == oc # None /\ Unwrap(oc).name = N_DEL

\* C8: DEL replies the number of named keys that were present and not
\* logically expired.
C8_DelCountsLive ==
    [][IsDel(lastCmd') =>
          lastReplyNS' = Some(Integer(LiveNamed(dataNS, Unwrap(lastCmd').args, now)))]_vars

\* C9: each command gets the same reply whether the sweeper has been invoked
\* (at any points before it) or never.
C9_SweeperUnobservable == lastReply = lastReplyNS

GetReply(d, key) == cmd_get(Command(N_GET, <<key>>), d, now).reply
TtlReply(d, key) == cmd_ttl(Command(N_TTL, <<key>>), d, now).reply
PttlReply(d, key) == cmd_pttl(Command(N_PTTL, <<key>>), d, now).reply

\* C13: the value stored by a SET that wrote is what GET returns, for as long
\* as no other command has written the key and its expiry has not come; GET
\* of a key that is not in the map returns bulk-null.
C13_GetReturnsSet ==
    /\ \A key \in (DOMAIN held) \ Due :
          /\ GetReply(data, key) = Bulk(Some(held[key]))
          /\ GetReply(dataNS, key) = Bulk(Some(held[key]))
    /\ \A key \in {K1, K2} :
          /\ key \notin DOMAIN data => GetReply(data, key) = NullBulk
          /\ key \notin DOMAIN dataNS => GetReply(dataNS, key) = NullBulk

\* SETEX k 1 w wrote, 1 ms before its expiry the value is still returned, and
\* the other key holds its own value
C13_Witness ==
    /\ held = (K1 :> W1) @@ (K2 :> V1)
    /\ K1 \in DOMAIN given /\ now = 1000 /\ given[K1] = 1001
    /\ GetReply(data, K1) = Bulk(Some(W1))

\* C14: right after a SET without EX / PX that wrote (KEEPTTL given or not),
\* TTL of the key is -1 whatever expiry the key had; and at every later
\* instant, while no command gives the key an expiry or writes it, TTL and
\* PTTL stay -1 and the value is still there.
C14_SetClearsExpiry ==
    /\ (lastCmd # None /\ Unwrap(lastCmd) \in PlainSets /\ lastReply = Some(OK)) =>
          TtlReply(data, K1) = Integer(-1) /\ TtlReply(dataNS, K1) = Integer(-1)
    /\ \A key \in (DOMAIN held) \ (DOMAIN given) :
          /\ TtlReply(data, key) = Integer(-1) /\ PttlReply(data, key) = Integer(-1)
          /\ TtlReply(dataNS, key) = Integer(-1) /\ PttlReply(dataNS, key) = Integer(-1)
          /\ GetReply(data, key) = Bulk(Some(held[key]))

\* SET k v KEEPTTL has written a key that had an expiry still to come
C14_Witness ==
    /\ lastCmd = Some(SetKeepTtl) /\ lastReply = Some(OK)
    /\ K1 \in DOMAIN prevGiven /\ now < prevGiven[K1]
    /\ data[K1].expires_at = None

-----------------------------------------------------------------------------
(* Counters: INCR / DECR / INCRBY / DECRBY on one key, from every kind of
   stored value, with every kind of delta *)

CounterInts == {0, 1, -1, 41, I64_MAX, I64_MAX - 1, I64_MIN, I64_MIN + 1}
\* stored strings that are no i64: no digits, empty, blank before the digits,
\* a fraction, and the integers just outside the range
NonIntegers ==
    {<<"a", "b", "c">>, <<>>, <<" ", "1">>, <<"1", ".", "5">>,
     Decimal(I64_MAX + 1), Decimal(I64_MIN - 1)}

StoredEntries ==
    {[value |-> VString(s), expires_at |-> x] :
        s \in {Decimal(v) : v \in CounterInts} \cup NonIntegers, x \in {None, Some(1)}}
CounterKeyspaces == {EmptyMap} \cup {(K1 :> e) : e \in StoredEntries}
Counting(name, d) == Command(name, <<K1, Decimal(d)>>)
Stepping(name) == Command(name, <<K1>>)

InitArith ==
    /\ overflow_checks \in BOOLEAN
    /\ data0 \in CounterKeyspaces
    /\ data = data0
    /\ now \in {0, 1}
    /\ lastCmd = None /\ lastReply = None /\ lastReplyNS = None
    /\ dataNS = EmptyMap /\ given = EmptyMap /\ prevGiven = EmptyMap /\ held = EmptyMap
    /\ logical = <<>> /\ expected = None
    /\ cmd = <<>> /\ cpos = <<>> /\ reply = <<>>
    /\ IdleCodec /\ IdleSess

Counted(c, x) ==
    /\ lastCmd = None
    /\ lastCmd' = Some(c)
    /\ lastReply' = Some(x.reply)
    /\ data' = x.data
    /\ UNCHANGED <<overflow_checks, codecVars, now, sessVars, concVars, dataNS, lastReplyNS,
                   given, prevGiven, held, logical, expected>>

Incr == Counted(Stepping(N_INCR), execute(Stepping(N_INCR), data, now))
Decr == Counted(Stepping(N_DECR), execute(Stepping(N_DECR), data, now))
IncrBy(d) == Counted(Counting(N_INCRBY, d), execute(Counting(N_INCRBY, d), data, now))
DecrBy(d) == Counted(Counting(N_DECRBY, d), execute(Counting(N_DECRBY, d), data, now))

NextArith ==
    \/ Incr
    \/ Decr
    \/ \E d \in CounterInts : IncrBy(d)
    \/ \E d \in CounterInts : DecrBy(d)

SpecArith == InitArith /\ [][NextArith]_vars

\* the key as the client knows it before the command: absent, or past its expiry
Gone == K1 \notin DOMAIN data0 \/ (data0[K1].expires_at # None /\ now >= Unwrap(data0[K1].expires_at))
HoldsInt(v) == IF Gone THEN v = 0 ELSE data0[K1].value = VString(Decimal(v))
HoldsNonInteger == ~Gone /\ data0[K1].value.s \in NonIntegers
WouldOverflow == Error(ERR(<<"increment or decrement would overflow">>))
\* what the command must have done to a key holding v when asked to add d
Added(v, d) ==
    IF v + d >= I64_MIN /\ v + d <= I64_MAX
    THEN /\ lastReply = Some(Integer(v + d))
         /\ data = (K1 :> [value |-> VString(Decimal(v + d)), expires_at |-> None])
    ELSE /\ lastReply = Some(WouldOverflow)
         /\ data = data0
Refused == lastReply = Some(NotAnInteger) /\ data = data0
AddedTo(d) ==
    /\ \A v \in CounterInts : HoldsInt(v) => Added(v, d)
    /\ HoldsNonInteger => Refused

\* C15: INCR, DECR and INCRBY d on a key holding the decimal text of v (0 for
\* an absent or expired key) reply v+d and leave the decimal text of v+d with
\* no expiry when v+d is an i64; otherwise they reply the overflow error and
\* leave the keyspace as it was; on a string that is no integer they reply
\* the not-an-integer error and leave the keyspace as it was.
C15_IncrementsChecked ==
    /\ lastCmd = Some(Stepping(N_INCR)) => AddedTo(1)
    /\ lastCmd = Some(Stepping(N_DECR)) => AddedTo(-1)
    /\ \A d \in CounterInts : lastCmd = Some(Counting(N_INCRBY, d)) => AddedTo(d)

\* INCRBY k 1 on the largest i64, stored with an expiry still to come, was
\* refused and the entry is as it was
C15_Witness ==
    /\ lastCmd = Some(Counting(N_INCRBY, 1))
    /\ now = 0
    /\ data0 = (K1 :> [value |-> VString(Decimal(I64_MAX)), expires_at |-> Some(1)])
    /\ lastReply = Some(WouldOverflow)
    /\ data = data0

\* C16: DECRBY d on a key holding v replies v-d when v-d is an i64 and the
\* overflow error otherwise, for every i64 d, the most negative included;
\* the command never ends in a panic.
C16_DecrByChecked ==
    \A d \in CounterInts : lastCmd = Some(Counting(N_DECRBY, d)) =>
        /\ lastReply # Some(PanicReply)
        /\ \A v \in CounterInts : HoldsInt(v) =>
              lastReply = IF v - d >= I64_MIN /\ v - d <= I64_MAX
                          THEN Some(Integer(v - d)) ELSE Some(WouldOverflow)

-----------------------------------------------------------------------------
(* Lists: pushes, pops, LSET and LRANGE on one key, against the sequence the
   commands mean *)

\* longest list of the list run
MaxListLen == 3
Elems == {<<"a">>, <<"b">>}
Pushed == {vs \in SeqsUpTo(Elems, 2) : vs # <<>>}
\* indices around both ends of every list of the run, and the ends of i64
Indices == (-(MaxListLen + 1) .. MaxListLen) \cup {I64_MIN, I64_MAX}

InitList ==
    /\ overflow_checks \in BOOLEAN
    /\ data = EmptyMap
    /\ logical = <<>>
    /\ now = 0
    /\ lastCmd = None /\ lastReply = None /\ lastReplyNS = None /\ expected = None
    /\ dataNS = EmptyMap /\ given = EmptyMap /\ prevGiven = EmptyMap /\ held = EmptyMap
    /\ IdleCodec /\ IdleSess /\ IdleConc

\* the command c ran; by its meaning the key now holds l and the reply is e
Ran(c, x, l, e) ==
    /\ lastCmd' = Some(c)
    /\ lastReply' = Some(x.reply)
    /\ data' = x.data
    /\ logical' = l
    /\ expected' = e
    /\ UNCHANGED <<overflow_checks, codecVars, now, sessVars, concVars, dataNS, lastReplyNS,
                   given, prevGiven, held>>

Mirrored(vs) == [i \in 1..Len(vs) |-> vs[Len(vs) + 1 - i]]
ListCmd(name, rest) == Command(name, <<K1>> \o rest)

RPush(vs) ==
    /\ Len(logical) + Len(vs) <= MaxListLen
    /\ Ran(ListCmd(N_RPUSH, vs), execute(ListCmd(N_RPUSH, vs), data, now),
           logical \o vs, Some(Integer(Len(logical) + Len(vs))))

LPush(vs) ==
    /\ Len(logical) + Len(vs) <= MaxListLen
    /\ Ran(ListCmd(N_LPUSH, vs), execute(ListCmd(N_LPUSH, vs), data, now),
           Mirrored(vs) \o logical, Some(Integer(Len(logical) + Len(vs))))

LPop ==
    Ran(ListCmd(N_LPOP, <<>>), execute(ListCmd(N_LPOP, <<>>), data, now),
        IF logical = <<>> THEN <<>> ELSE Tail(logical),
        Some(IF logical = <<>> THEN NullBulk ELSE Bulk(Some(Head(logical)))))

RPop ==
    Ran(ListCmd(N_RPOP, <<>>), execute(ListCmd(N_RPOP, <<>>), data, now),
        IF logical = <<>> THEN <<>> ELSE SubSeq(logical, 1, Len(logical) - 1),
        Some(IF logical = <<>> THEN NullBulk ELSE Bulk(Some(logical[Len(logical)]))))

\* the position index names in a list of length len, counted from the tail when negative
Position(index, len) == IF index < 0 THEN index + len ELSE index

LSet(i, v) ==
    Ran(ListCmd(N_LSET, <<Decimal(i), v>>), execute(ListCmd(N_LSET, <<Decimal(i), v>>), data, now),
        IF Position(i, Len(logical)) \in 0..(Len(logical) - 1)
        THEN [logical EXCEPT ![Position(i, Len(logical)) + 1] = v] ELSE logical,
        None)

\* the elements at s..e (0-based, inclusive) after clamping s to 0 and e to len - 1
Clamped(l, s, e) ==
    IF Max(0, s) > Min(Len(l) - 1, e) \/ Max(0, s) >= Len(l) THEN <<>>
    ELSE SubSeq(l, Max(0, s) + 1, Min(Len(l) - 1, e) + 1)
Ranged(l, start, stop) == Clamped(l, Position(start, Len(l)), Position(stop, Len(l)))
RangeCmd(start, stop) == ListCmd(N_LRANGE, <<Decimal(start), Decimal(stop)>>)

LRange(start, stop) ==
    Ran(RangeCmd(start, stop), execute(RangeCmd(start, stop), data, now),
        logical, Some(BulkEach(Ranged(logical, start, stop))))

NextList ==
    \/ \E vs \in Pushed : RPush(vs)
    \/ \E vs \in Pushed : LPush(vs)
    \/ LPop
    \/ RPop
    \/ \E i \in Indices, v \in Elems : LSet(i, v)
    \/ \E start \in Indices, stop \in Indices : LRange(start, stop)

SpecList == InitList /\ [][NextList]_vars

LastIs(names) == lastCmd # None /\ Unwrap(lastCmd).name \in names

\* C17: LRANGE start stop replies the elements at s..e, where negative
\* indices first have the length added, then s = max(0, start) and
\* e = min(len - 1, stop), and the empty array when s > e or s >= len; so a
\* stop below -len gives the empty array.
C17_LRangeClamps == LastIs({N_LRANGE}) => lastReply = expected

\* C18: after any run of RPUSH, LPUSH, LPOP, RPOP and LSET, LRANGE k 0 -1
\* replies the list in its logical order (RPUSH appends its values in
\* argument order, LPUSH puts each at the head in argument order, the pops
\* take the first / last element and reply it), and each push replies the
\* new length.
C18_ListOrder ==
    /\ execute(RangeCmd(0, -1), data, now).reply = BulkEach(logical)
    /\ LastIs({N_RPUSH, N_LPUSH, N_LPOP, N_RPOP}) => lastReply = expected

\* LPUSH k a b onto the list b has made it b a b with reply 3
C18_Witness ==
    /\ lastCmd = Some(ListCmd(N_LPUSH, <<<<"a">>, <<"b">>>>))
    /\ lastReply = Some(Integer(3))
    /\ logical = <<<<"b">>, <<"a">>, <<"b">>>>
    /\ data[K1].value = VList(logical)

-----------------------------------------------------------------------------
(* Sets: SADD, SREM, SCARD and SISMEMBER on one key, against the set of
   members the commands mean *)

Members == {<<"a">>, <<"b">>, <<"c">>}
Named == {ms \in SeqsUpTo(Members, 2) : ms # <<>>}
Among(ms) == {ms[i] : i \in 1..Len(ms)}
KeyCmd(name, rest) == Command(name, <<K1>> \o rest)

InitSet ==
    /\ overflow_checks \in BOOLEAN
    /\ data = EmptyMap
    /\ logical = {}
    /\ now = 0
    /\ lastCmd = None /\ lastReply = None /\ lastReplyNS = None /\ expected = None
    /\ dataNS = EmptyMap /\ given = EmptyMap /\ prevGiven = EmptyMap /\ held = EmptyMap
    /\ IdleCodec /\ IdleSess /\ IdleConc

SAdd(ms) ==
    Ran(KeyCmd(N_SADD, ms), execute(KeyCmd(N_SADD, ms), data, now),
        logical \cup Among(ms), Some(Integer(Cardinality(Among(ms) \ logical))))

SRem(ms) ==
    Ran(KeyCmd(N_SREM, ms), execute(KeyCmd(N_SREM, ms), data, now),
        logical \ Among(ms), Some(Integer(Cardinality(Among(ms) \cap logical))))

SCard ==
    Ran(KeyCmd(N_SCARD, <<>>), execute(KeyCmd(N_SCARD, <<>>), data, now),
        logical, Some(Integer(Cardinality(logical))))

SIsMember(m) ==
    Ran(KeyCmd(N_SISMEMBER, <<m>>), execute(KeyCmd(N_SISMEMBER, <<m>>), data, now),
        logical, Some(Integer(IF m \in logical THEN 1 ELSE 0)))

NextSet ==
    \/ \E ms \in Named : SAdd(ms)
    \/ \E ms \in Named : SRem(ms)
    \/ SCard
    \/ \E m \in Members : SIsMember(m)

SpecSet == InitSet /\ [][NextSet]_vars

\* C19: SADD replies how many of its members were not in the set (one
\* repeated in the command counts once), SREM how many it removed; after
\* any run of them SCARD is the number of distinct members in the set and
\* SISMEMBER is 1 for exactly those.
C19_SetCounts ==
    /\ LastIs({N_SADD, N_SREM, N_SCARD, N_SISMEMBER}) => lastReply = expected
    /\ execute(KeyCmd(N_SCARD, <<>>), data, now).reply = Integer(Cardinality(logical))
    /\ \A m \in Members :
          execute(KeyCmd(N_SISMEMBER, <<m>>), data, now).reply = Integer(IF m \in logical THEN 1 ELSE 0)

\* SADD k b b on the set {a} replied 1 and the set is {a, b}
C19_Witness ==
    /\ lastCmd = Some(KeyCmd(N_SADD, <<<<"b">>, <<"b">>>>))
    /\ lastReply = Some(Integer(1))
    /\ logical = {<<"a">>, <<"b">>}
    /\ data[K1].value = VSet(logical)

-----------------------------------------------------------------------------
(* Hashes: HSET, HDEL, HGET and HLEN on one key, against the field map the
   commands mean *)

Fields == {<<"f">>, <<"g">>}
FieldValues == {<<"1">>, <<"2">>}
Pairs == {<<f, v>> : f \in Fields, v \in FieldValues}
Written == {ps \in SeqsUpTo(Pairs, 2) : ps # <<>>}
Deleted == {fs \in SeqsUpTo(Fields, 2) : fs # <<>>}
\* the map after writing the pairs in order
RECURSIVE WriteAll(_, _)
WriteAll(h, ps) ==
    IF ps = <<>> THEN h
    ELSE WriteAll([f \in (DOMAIN h) \cup {Head(ps)[1]} |->
                      IF f = Head(ps)[1] THEN Head(ps)[2] ELSE h[f]], Tail(ps))
FieldsOf(ps) == {ps[i][1] : i \in 1..Len(ps)}

InitHash ==
    /\ overflow_checks \in BOOLEAN
    /\ data = EmptyMap
    /\ logical = EmptyMap
    /\ now = 0
    /\ lastCmd = None /\ lastReply = None /\ lastReplyNS = None /\ expected = None
    /\ dataNS = EmptyMap /\ given = EmptyMap /\ prevGiven = EmptyMap /\ held = EmptyMap
    /\ IdleCodec /\ IdleSess /\ IdleConc

HSet(ps) ==
    Ran(KeyCmd(N_HSET, Concat(ps)), execute(KeyCmd(N_HSET, Concat(ps)), data, now),
        WriteAll(logical, ps), Some(Integer(Cardinality(FieldsOf(ps) \ DOMAIN logical))))

HDel(fs) ==
    Ran(KeyCmd(N_HDEL, fs), execute(KeyCmd(N_HDEL, fs), data, now),
        [f \in (DOMAIN logical) \ Among(fs) |-> logical[f]], None)

HGet(f) ==
    Ran(KeyCmd(N_HGET, <<f>>), execute(KeyCmd(N_HGET, <<f>>), data, now),
        logical, Some(IF f \in DOMAIN logical THEN Bulk(Some(logical[f])) ELSE NullBulk))

HLen ==
    Ran(KeyCmd(N_HLEN, <<>>), execute(KeyCmd(N_HLEN, <<>>), data, now),
        logical, Some(Integer(Cardinality(DOMAIN logical))))

NextHash ==
    \/ \E ps \in Written : HSet(ps)
    \/ \E fs \in Deleted : HDel(fs)
    \/ \E f \in Fields : HGet(f)
    \/ HLen

SpecHash == InitHash /\ [][NextHash]_vars

\* C20: HSET replies how many of its fields did not exist before (0 when it
\* only overwrites); afterwards HGET of a field replies the value written to
\* it last, bulk-null for a field never written or deleted; HLEN is the
\* number of distinct fields present.
C20_HashFields ==
    /\ LastIs({N_HSET, N_HGET, N_HLEN}) => lastReply = expected
    /\ \A f \in Fields :
          execute(KeyCmd(N_HGET, <<f>>), data, now).reply =
              IF f \in DOMAIN logical THEN Bulk(Some(logical[f])) ELSE NullBulk
    /\ execute(KeyCmd(N_HLEN, <<>>), data, now).reply = Integer(Cardinality(DOMAIN logical))

\* HSET k f 2 g 1 on the hash f = 1 replied 1, and f now reads 2
C20_Witness ==
    /\ lastCmd = Some(KeyCmd(N_HSET, <<<<"f">>, <<"2">>, <<"g">>, <<"1">>>>))
    /\ lastReply = Some(Integer(1))
    /\ logical = (<<"f">> :> <<"2">>) @@ (<<"g">> :> <<"1">>)
    /\ execute(KeyCmd(N_HGET, <<<<"f">>>>), data, now).reply = Bulk(Some(<<"2">>))

-----------------------------------------------------------------------------
(* KEYS: every pattern against every key, live or expired *)

\* longest pattern and longest key of the KEYS run
MaxGlob == 3
GlobTexts == SeqsUpTo({"a", "b"}, MaxGlob)
GlobPatterns == SeqsUpTo({"a", "b", "*", "?"}, MaxGlob)
StoredAt(x) == [value |-> VString(V1), expires_at |-> x]
\* one key, with no expiry or with an expiry passed, or that key next to a
\* second key that is live
GlobKeyspaces ==
    {(k :> StoredAt(x)) : k \in GlobTexts, x \in {None, Some(0)}}
    \cup {(k :> StoredAt(x)) @@ (<<"a", "b">> :> StoredAt(None)) :
             k \in GlobTexts \ {<<"a", "b">>}, x \in {None, Some(0)}}
Arrangements(S) == {o \in [1..Cardinality(S) -> S] : Range(o) = S}

InitGlob ==
    /\ overflow_checks \in BOOLEAN
    /\ data \in GlobKeyspaces
    /\ now = 1
    /\ lastCmd = None /\ lastReply = None /\ lastReplyNS = None
    /\ logical = <<>> /\ expected = None
    /\ dataNS = EmptyMap /\ given = EmptyMap /\ prevGiven = EmptyMap /\ held = EmptyMap
    /\ IdleCodec /\ IdleSess /\ IdleConc

Keys(pattern) ==
    /\ lastCmd = None
    /\ \E in_order \in Arrangements(keys(data, pattern, now)) :
          Ran(Command(N_KEYS, <<pattern>>),
              cmd_keys(Command(N_KEYS, <<pattern>>), data, now, in_order), logical, None)

KeysOfAll ==
    /\ lastCmd = None
    /\ \E in_order \in Arrangements(keys(data, <<"*">>, now)) :
          Ran(Command(N_KEYS, <<>>), cmd_keys(Command(N_KEYS, <<>>), data, now, in_order),
              logical, None)

NextGlob ==
    \/ \E pattern \in GlobPatterns : Keys(pattern)
    \/ KeysOfAll

SpecGlob == InitGlob /\ [][NextGlob]_vars

\* the wildcard language, by cutting the text into one piece per pattern
\* character: any piece for '*', a piece of one character for '?', the
\* character itself for any other
Piece(text, cut, i) == SubSeq(text, cut[i - 1] + 1, cut[i])
Cuts(pattern, text) ==
    {cut \in [0..Len(pattern) -> 0..Len(text)] :
        /\ cut[0] = 0 /\ cut[Len(pattern)] = Len(text)
        /\ \A i \in 1..Len(pattern) : cut[i - 1] <= cut[i]}
Wildcard(pattern, text) ==
    \E cut \in Cuts(pattern, text) : \A i \in 1..Len(pattern) :
        CASE pattern[i] = "*" -> TRUE
          [] pattern[i] = "?" -> Len(Piece(text, cut, i)) = 1
          [] OTHER -> Piece(text, cut, i) = <<pattern[i]>>
NotDue(d, k) == d[k].expires_at = None \/ now < Unwrap(d[k].expires_at)
Replied == {Unwrap(lastReply).a[1][i] : i \in 1..Len(Unwrap(lastReply).a[1])}
AskedPattern == IF Unwrap(lastCmd).args = <<>> THEN <<"*">> ELSE Unwrap(lastCmd).args[1]

\* C21: KEYS pattern replies exactly the keys not expired that the pattern
\* matches, where '*' stands for any run of characters, the empty one
\* included, '?' for one character, and any other character for itself; the
\* matcher comes to an answer on every pattern and key.
C21_KeysMatchGlob ==
    LastIs({N_KEYS}) =>
        /\ Unwrap(lastReply).t = "Array"
        /\ Replied = {Bulk(Some(k)) : k \in {x \in DOMAIN data : NotDue(data, x) /\ Wildcard(AskedPattern, x)}}
        /\ Len(Unwrap(lastReply).a[1]) = Cardinality(Replied)

\* KEYS a*b replied the live key aab and not the expired one
C21_Witness ==
    /\ lastCmd = Some(Command(N_KEYS, <<<<"a", "*", "b">>>>))
    /\ data = (<<"a", "a", "b">> :> StoredAt(None))
    /\ lastReply = Some(Array(Some(<<Bulk(Some(<<"a", "a", "b">>))>>)))

-----------------------------------------------------------------------------
(* Sessions racing on SETNX, MSET and multi-field HSET: the sessions and
   their steps are those of SpecConc, the commands and keyspaces differ *)

SetNx(v) == Command(N_SETNX, <<K1, v>>)
MSet(v, w) == Command(N_MSET, <<K1, v, K2, w>>)
MSetReaders ==
    {Command(N_MGET, <<K1, K2>>), Command(N_EXISTS, <<K1, K2>>), Command(N_DEL, <<K1, K2>>)}
HSet2 == Command(N_HSET, <<K1, <<"f">>, <<"1">>, <<"g">>, <<"2">>>>)
HSetRivals ==
    {Command(N_HLEN, <<K1>>), Command(N_DEL, <<K1>>), Command(N_SET, <<K1, V1>>),
     Command(N_HGET, <<K1, <<"g">>>>)}
AtomicPool ==
    {SetNx(<<"x">>), SetNx(<<"y">>), MSet(<<"a">>, <<"b">>), MSet(<<"c">>, <<"d">>), HSet2}
    \cup MSetReaders \cup HSetRivals
\* the key absent, expired, or present as a string (with and without an
\* expiry to come), a list, a set or a hash
AtomicKeyspaces ==
    {EmptyMap,
     (K1 :> [value |-> VString(<<"o">>), expires_at |-> Some(1)]),
     (K1 :> [value |-> VString(<<"o">>), expires_at |-> None]),
     (K1 :> [value |-> VString(<<"o">>), expires_at |-> Some(2)]) @@ (K2 :> Entry_new(VString(<<"p">>))),
     (K1 :> Entry_new(VList(<<<<"o">>>>))),
     (K1 :> Entry_new(VSet({<<"o">>}))),
     (K1 :> Entry_new(VHash((<<"f">> :> <<"0">>))))}

InitAtomic ==
    /\ overflow_checks \in BOOLEAN
    /\ cmd \in [Sess -> AtomicPool]
    /\ data0 \in AtomicKeyspaces
    /\ data = data0 /\ now = 1
    /\ cpos = [s \in Sess |-> Start]
    /\ reply = [s \in Sess |-> None]
    /\ IdleCodec /\ IdleSess /\ IdleRun

SpecAtomic == InitAtomic /\ [][NextConc]_vars

SetNxValues == {<<"x">>, <<"y">>}
AllSetNx == \A s \in Sess : cmd[s].name = N_SETNX
Vacant == K1 \notin DOMAIN data0 \/ (data0[K1].expires_at # None /\ now >= Unwrap(data0[K1].expires_at))
Winners == {s \in Sess : reply[s] = Some(Integer(1))}
Losers == {s \in Sess : reply[s] = Some(Integer(0))}

\* C22: sessions racing with SETNX k v on a key absent or expired: at most
\* one has replied 1, the first to reply has, the value stored is the
\* winner's, every other reply is 0; on a key present and not expired, of
\* any type, every reply is 0 and the keyspace stays as it was.
C22_SetNxOneWinner ==
    AllSetNx =>
        /\ Finished = Winners \cup Losers
        /\ Vacant =>
              /\ Cardinality(Winners) = IF Finished = {} THEN 0 ELSE 1
              /\ \A s \in Winners : data = (K1 :> Entry_new(VString(cmd[s].args[2])))
        /\ ~Vacant => (Winners = {} /\ data = data0)

\* both sessions raced on the expired key; session 2 won with y
C22_Witness ==
    /\ cmd = [s \in Sess |-> IF s = 2 THEN SetNx(<<"y">>) ELSE SetNx(<<"x">>)]
    /\ AllDone
    /\ data0 = (K1 :> [value |-> VString(<<"o">>), expires_at |-> Some(1)])
    /\ Winners = {2}
    /\ data = (K1 :> Entry_new(VString(<<"y">>)))

InMSetFamily(c) == c.name = N_MSET \/ c \in MSetReaders
MSetRace == (\A s \in Sess : InMSetFamily(cmd[s])) /\ (\E s \in Sess : cmd[s].name = N_MSET)
OnlyMSets == \A s \in Sess : cmd[s].name = N_MSET \/ cmd[s].name \in {N_MGET, N_EXISTS}

\* C23: sessions running MSET next to MGET, EXISTS, DEL or another MSET over
\* the same keys: the replies and the keyspace are those of the whole
\* commands in some order, so a reader sees none or all of an MSET's pairs;
\* a key written by MSET, and not deleted after, holds the new string with
\* no expiry.
C23_MSetAtomic ==
    MSetRace =>
        /\ AllDone => \E p \in Orders : Explains(p)
        /\ (OnlyMSets /\ \E s \in Finished : cmd[s].name = N_MSET) =>
              \E s \in Finished :
                  /\ cmd[s].name = N_MSET
                  /\ data = (K1 :> Entry_new(VString(cmd[s].args[2])))
                            @@ (K2 :> Entry_new(VString(cmd[s].args[4])))

\* MGET, run before the MSET of the other session, saw the old pair; the
\* MSET then replaced both and dropped the expiry of k
C23_Witness ==
    /\ cmd = [s \in Sess |-> IF s = 1 THEN MSet(<<"a">>, <<"b">>) ELSE Command(N_MGET, <<K1, K2>>)]
    /\ AllDone
    /\ K1 \in DOMAIN data0
    /\ data0[K1].expires_at = Some(2)
    /\ reply[2] = Some(Array(Some(<<Bulk(Some(<<"o">>)), Bulk(Some(<<"p">>))>>)))
    /\ data = (K1 :> Entry_new(VString(<<"a">>))) @@ (K2 :> Entry_new(VString(<<"b">>)))

HSetRace == (\E s \in Sess : cmd[s] = HSet2) /\ (\A s \in Sess : cmd[s] = HSet2 \/ cmd[s] \in HSetRivals)

\* C24: a two-field HSET racing with HLEN, HGET, DEL or SET on the same
\* key: the replies and the keyspace are those of the whole commands in
\* some order, so nothing is seen or done between its two writes.
C24_HSetAtomic == (HSetRace /\ AllDone) => \E p \in Orders : Explains(p)

\* ---------------------------------------------------------------------------
\* Keys of every type: one command, executed whole, on a keyspace holding k
\* as a string, list, set or hash (with no expiry, expired, or still to
\* expire) next to a second key j; a TYPE or GET may follow it.

WithExpiries(value) ==
    {[value |-> value, expires_at |-> e] : e \in {None, Some(1), Some(2)}}
TypedEntries ==
    UNION {WithExpiries(v) : v \in {VString(<<"o">>), VString(<<"5">>), VList(<<<<"o">>>>),
                                    VSet({<<"o">>}), VHash((<<"f">> :> <<"0">>))}}
OtherEntries ==
    {Entry_new(VString(<<"p">>)),
     [value |-> VList(<<<<"p">>>>), expires_at |-> Some(2)],
     [value |-> VString(<<"p">>), expires_at |-> Some(1)]}
TypedKeyspaces ==
    {a @@ b : a \in {EmptyMap} \cup {(K1 :> e) : e \in TypedEntries},
              b \in {EmptyMap} \cup {(K2 :> e) : e \in OtherEntries}}

InitTyped ==
    /\ overflow_checks \in BOOLEAN
    /\ data0 \in TypedKeyspaces
    /\ data = data0 /\ now = 1
    /\ lastCmd = None /\ lastReply = None /\ lastReplyNS = None
    /\ dataNS = EmptyMap /\ given = EmptyMap /\ prevGiven = EmptyMap /\ held = EmptyMap
    /\ logical = <<>> /\ expected = None
    /\ cmd = <<>> /\ cpos = <<>> /\ reply = <<>>
    /\ IdleCodec /\ IdleSess

ListCmds ==
    {KeyCmd(N_LPUSH, <<V1>>), KeyCmd(N_RPUSH, <<V1>>), KeyCmd(N_LPOP, <<>>), KeyCmd(N_RPOP, <<>>),
     KeyCmd(N_LLEN, <<>>), KeyCmd(N_LRANGE, <<<<"0">>, <<"-", "1">>>>),
     KeyCmd(N_LINDEX, <<<<"0">>>>), KeyCmd(N_LSET, <<<<"0">>, V1>>)}
SetCmds ==
    {KeyCmd(N_SADD, <<V1>>), KeyCmd(N_SREM, <<V1>>), KeyCmd(N_SREM, <<<<"o">>>>),
     KeyCmd(N_SISMEMBER, <<V1>>), KeyCmd(N_SCARD, <<>>)}
HashCmds ==
    {KeyCmd(N_HSET, <<<<"f">>, <<"1">>>>), KeyCmd(N_HMSET, <<<<"f">>, <<"1">>>>),
     KeyCmd(N_HGET, <<<<"f">>>>), KeyCmd(N_HMGET, <<<<"f">>>>), KeyCmd(N_HDEL, <<<<"f">>>>),
     KeyCmd(N_HEXISTS, <<<<"f">>>>), KeyCmd(N_HLEN, <<>>),
     KeyCmd(N_HINCRBY, <<<<"f">>, <<"1">>>>)}
StringCmds ==
    {KeyCmd(N_INCR, <<>>), KeyCmd(N_DECR, <<>>), KeyCmd(N_INCRBY, <<<<"1">>>>),
     KeyCmd(N_DECRBY, <<<<"1">>>>), KeyCmd(N_DECRBY, <<Decimal(I64_MIN)>>),
     KeyCmd(N_APPEND, <<V1>>), KeyCmd(N_STRLEN, <<>>)}
UnorderedNames == {N_SMEMBERS, N_HKEYS, N_HVALS, N_HGETALL}
TypedPool == ListCmds \cup SetCmds \cup HashCmds \cup StringCmds

\* the type a command is specialized to
FamilyOf(name) ==
    IF name \in {c.name : c \in ListCmds} THEN "List"
    ELSE IF name \in {c.name : c \in SetCmds} \cup {N_SMEMBERS} THEN "Set"
    ELSE IF name \in {c.name : c \in HashCmds} \cup {N_HKEYS, N_HVALS, N_HGETALL} THEN "Hash"
    ELSE "String"

SetWith(opts) == KeyCmd(N_SET, <<V1>> \o opts)
WritePool ==
    {SetWith(<<>>), SetWith(<<<<"N", "X">>>>), SetWith(<<<<"X", "X">>>>),
     SetWith(<<<<"P", "X">>, <<"5">>>>),
     Command(N_SETEX, <<K1, <<"5">>, V1>>), Command(N_PSETEX, <<K1, <<"5">>, V1>>),
     KeyCmd(N_GETSET, <<V1>>), KeyCmd(N_SETNX, <<V1>>), Command(N_MSET, <<K1, V1>>),
     Command(N_DEL, <<K1>>), Command(N_DEL, <<K2, K1>>), Command(N_FLUSHDB, <<>>),
     KeyCmd(N_EXPIRE, <<<<"5">>>>), KeyCmd(N_PERSIST, <<>>)}

Typed(c) == Counted(c, execute(c, data, now))
Wrote(c) == Counted(c, execute(c, data, now))
Rename(old, new) ==
    Counted(Command(N_RENAME, <<old, new>>), execute(Command(N_RENAME, <<old, new>>), data, now))
RenameNx(old, new) ==
    Counted(Command(N_RENAMENX, <<old, new>>), execute(Command(N_RENAMENX, <<old, new>>), data, now))

\* what the collection at k holds, to be replied in some order
Unsorted(d, t) ==
    LET e == Live(d, K1, t) IN
    IF e = None THEN {}
    ELSE IF Unwrap(e).value.t = "Set" THEN Unwrap(e).value.m
    ELSE IF Unwrap(e).value.t = "Hash" THEN DOMAIN Unwrap(e).value.h
    ELSE {}
unordered(c, d, t, in_order) ==
    CASE c.name = N_SMEMBERS -> cmd_smembers(c, d, t, in_order)
      [] c.name = N_HKEYS    -> cmd_hkeys(c, d, t, in_order)
      [] c.name = N_HVALS    -> cmd_hvals(c, d, t, in_order)
      [] c.name = N_HGETALL  -> cmd_hgetall(c, d, t, in_order)
Unordered(name) ==
    \E in_order \in Arrangements(IF FamilyOf(name) = "Set" /\ Live(data, K1, now) # None
                                     /\ Unwrap(Live(data, K1, now)).value.t = "Set"
                                  THEN Unsorted(data, now)
                                  ELSE IF FamilyOf(name) = "Hash" /\ Live(data, K1, now) # None
                                     /\ Unwrap(Live(data, K1, now)).value.t = "Hash"
                                  THEN Unsorted(data, now) ELSE {}) :
        Counted(KeyCmd(name, <<>>), unordered(KeyCmd(name, <<>>), data, now, in_order))

\* a second command, asking about k after the first
Probes == {Command(N_TYPE, <<K1>>), Command(N_GET, <<K1>>)}
Probe(c) ==
    /\ lastCmd # None /\ expected = None
    /\ expected' = Some([cmd |-> Unwrap(lastCmd), reply |-> Unwrap(lastReply)])
    /\ lastCmd' = Some(c)
    /\ lastReply' = Some(execute(c, data, now).reply)
    /\ data' = execute(c, data, now).data
    /\ UNCHANGED <<overflow_checks, codecVars, now, sessVars, concVars, dataNS, lastReplyNS,
                   given, prevGiven, held, logical>>

NextTyped ==
    \/ \E c \in TypedPool : Typed(c)
    \/ \E name \in UnorderedNames : Unordered(name)
    \/ \E c \in WritePool : Wrote(c)
    \/ \E old \in {K1, K2}, new \in {K1, K2} : Rename(old, new)
    \/ \E old \in {K1, K2}, new \in {K1, K2} : RenameNx(old, new)
    \/ \E c \in Probes : Probe(c)

SpecTyped == InitTyped /\ [][NextTyped]_vars

\* the first command of the run has just replied
First(names) == LastIs(names) /\ expected = None
Old == Unwrap(lastCmd).args[1]
New == Unwrap(lastCmd).args[2]
NoSuchKey == Error(ERR(<<"no such key">>))

\* C25: RENAME old new on an old key absent or expired replies 'ERR no such
\* key' and leaves the entry at new as it was; otherwise the entry of old,
\* with its value, type and expires_at, is now the entry of new, old is
\* absent (unless new is old, which is then unchanged), every other key is
\* as it was, and the reply is OK.
C25_Rename ==
    First({N_RENAME}) =>
        IF Live(data0, Old, now) = None
        THEN /\ lastReply = Some(NoSuchKey)
             /\ Live(data, New, now) = Live(data0, New, now)
             /\ New # Old => data = Remove(data0, Old)
        ELSE /\ lastReply = Some(OK)
             /\ data = Insert(Remove(data0, Old), New, data0[Old])
             /\ data[New] = data0[Old]
             /\ New # Old => Old \notin DOMAIN data
             /\ New = Old => data = data0

\* the list at j, due to expire at 2, replaced the string at k and kept its expiry
C25_Witness ==
    /\ First({N_RENAME}) /\ Old = K2 /\ New = K1
    /\ K1 \in DOMAIN data0 /\ K2 \in DOMAIN data0
    /\ data0[K1].value.t = "String" /\ data0[K1].expires_at = None
    /\ lastReply = Some(OK)
    /\ data = (K1 :> [value |-> VList(<<<<"p">>>>), expires_at |-> Some(2)])

\* C26: RENAMENX old new replies 'ERR no such key' whenever old is absent
\* or expired, also when new exists; replies 0 and changes nothing when old
\* is there and new is present and not expired; otherwise moves the entry as
\* RENAME does and replies 1.
C26_RenameNx ==
    First({N_RENAMENX}) =>
        IF Live(data0, Old, now) = None THEN lastReply = Some(NoSuchKey)
        ELSE IF Live(data0, New, now) # None THEN lastReply = Some(Integer(0)) /\ data = data0
        ELSE lastReply = Some(Integer(1)) /\ data = Insert(Remove(data0, Old), New, data0[Old])

\* the same, for every case but an absent or expired old key next to a new
\* key that is present
C26_RenameNxElsewhere ==
    (First({N_RENAMENX}) /\ ~(Live(data0, Old, now) = None /\ Live(data0, New, now) # None)) =>
        IF Live(data0, Old, now) = None THEN lastReply = Some(NoSuchKey)
        ELSE IF Live(data0, New, now) # None THEN lastReply = Some(Integer(0)) /\ data = data0
        ELSE lastReply = Some(Integer(1)) /\ data = Insert(Remove(data0, Old), New, data0[Old])

WrongTypeReply == Error(WRONGTYPE)
TypedNames == {c.name : c \in TypedPool} \cup UnorderedNames
\* the reply the same command gets when k is absent
OnAbsent(c) ==
    IF c.name \in UnorderedNames THEN unordered(c, Remove(data0, K1), now, <<>>).reply
    ELSE execute(c, Remove(data0, K1), now).reply

\* C27: a command of the list, set or hash family, or INCR, DECR, INCRBY,
\* DECRBY, APPEND, STRLEN, on a key present, not expired and of another type
\* replies exactly the WRONGTYPE error; on an expired key it replies what it
\* replies on an absent key, which is not the WRONGTYPE error.
C27_WrongType ==
    (First(TypedNames) /\ K1 \in DOMAIN data0) =>
        IF is_expired(data0[K1], now)
        THEN lastReply = Some(OnAbsent(Unwrap(lastCmd))) /\ lastReply # Some(WrongTypeReply)
        ELSE data0[K1].value.t # FamilyOf(Unwrap(lastCmd).name) => lastReply = Some(WrongTypeReply)

\* the same, for every command but DECRBY of the least 64-bit integer
C27_WrongTypeElsewhere ==
    (First(TypedNames) /\ K1 \in DOMAIN data0
        /\ Unwrap(lastCmd) # KeyCmd(N_DECRBY, <<Decimal(I64_MIN)>>)) =>
        IF is_expired(data0[K1], now)
        THEN lastReply = Some(OnAbsent(Unwrap(lastCmd))) /\ lastReply # Some(WrongTypeReply)
        ELSE data0[K1].value.t # FamilyOf(Unwrap(lastCmd).name) => lastReply = Some(WrongTypeReply)

TypeName(ty) ==
    CASE ty = "String" -> <<"s", "t", "r", "i", "n", "g">>
      [] ty = "List"   -> <<"l", "i", "s", "t">>
      [] ty = "Set"    -> <<"s", "e", "t">>
      [] ty = "Hash"   -> <<"h", "a", "s", "h">>
\* the type written by a command that replied r, if it wrote k
TypeWritten(c, r) ==
    IF c.name \in {N_SET, N_SETEX, N_PSETEX, N_MSET} /\ r = OK THEN Some("String")
    ELSE IF c.name = N_SETNX /\ r = Integer(1) THEN Some("String")
    ELSE IF c.name = N_GETSET /\ r.t = "Bulk" THEN Some("String")
    ELSE IF c.name \in {N_LPUSH, N_RPUSH} /\ r.t = "Integer" THEN Some("List")
    ELSE IF c.name = N_SADD /\ r.t = "Integer" THEN Some("Set")
    ELSE IF c.name \in {N_HSET, N_HMSET, N_HINCRBY} /\ r.t \in {"Integer", "Simple"} THEN Some("Hash")
    ELSE None
Probed(name) == lastCmd = Some(Command(name, <<K1>>)) /\ expected # None
Before == Unwrap(expected)
DelNamesK == Before.cmd.name = N_DEL /\ K1 \in Range(Before.cmd.args)
\* what the DEL replies for the keys it names other than k
OtherNamed == SelectSeq(Before.cmd.args, LAMBDA a : a # K1)
CountedElse ==
    IF OtherNamed = <<>> THEN 0 ELSE execute(Command(N_DEL, OtherNamed), data0, now).reply.n
Replacing == {N_SET, N_SETEX, N_PSETEX, N_GETSET, N_MSET, N_RENAME}
TypeChanged(key) ==
    /\ get_type(data0, key, now) # None
    /\ get_type(data, key, now) # None
    /\ get_type(data, key, now) # get_type(data0, key, now)

\* C28: TYPE k after a write of type T to k that succeeded returns T; after
\* a DEL naming k, TYPE k returns none, GET k returns bulk-null, and the DEL
\* counted 1 for k when k was present and not expired; a key present and
\* not expired before and after a command has changed its type only if the
\* command is SET, SETEX, PSETEX, GETSET, MSET or a RENAME onto it.
C28_TypeFollowsWrites ==
    /\ (Probed(N_TYPE) /\ TypeWritten(Before.cmd, Before.reply) # None) =>
           lastReply = Some(Simple(TypeName(Unwrap(TypeWritten(Before.cmd, Before.reply)))))
    /\ (Probed(N_TYPE) /\ DelNamesK) => lastReply = Some(Simple(<<"n", "o", "n", "e">>))
    /\ (Probed(N_GET) /\ DelNamesK) => lastReply = Some(NullBulk)
    /\ ((Probed(N_TYPE) \/ Probed(N_GET)) /\ DelNamesK /\ Live(data0, K1, now) # None) =>
           Before.reply = Integer(CountedElse + 1)
    /\ \A key \in {K1, K2} :
           (lastCmd # None /\ expected = None /\ TypeChanged(key)) =>
               /\ Unwrap(lastCmd).name \in Replacing
               /\ Unwrap(lastCmd).name = N_RENAME => New = key
               /\ Unwrap(lastCmd).name # N_RENAME => Old = key

\* LPUSH on the expired string made k a list, and TYPE says so
C28_Witness ==
    /\ Probed(N_TYPE)
    /\ Before.cmd.name = N_LPUSH
    /\ K1 \in DOMAIN data0
    /\ data0[K1] = [value |-> VString(<<"o">>), expires_at |-> Some(1)]
    /\ lastReply = Some(Simple(<<"l", "i", "s", "t">>))

SetWrote == lastReply = Some(OK) /\ data = Insert(data0, K1, Entry_new(VString(V1)))
SetSkipped == lastReply = Some(NullBulk) /\ data = data0

\* C29: SET k v NX on a key present and not expired, of any type, writes
\* nothing and replies bulk-null, and SET k v XX on it writes; on a key
\* absent or expired NX writes and XX writes nothing and replies bulk-null.
C29_SetNxXxAnyType ==
    /\ lastCmd = Some(SetWith(<<<<"N", "X">>>>)) =>
           IF Live(data0, K1, now) # None THEN SetSkipped ELSE SetWrote
    /\ lastCmd = Some(SetWith(<<<<"X", "X">>>>)) =>
           IF Live(data0, K1, now) # None THEN SetWrote ELSE SetSkipped

\* the same, for a key that is a string when it is present and not expired
C29_SetNxXxOnStrings ==
    (Live(data0, K1, now) # None => Unwrap(Live(data0, K1, now)).value.t = "String") =>
        /\ lastCmd = Some(SetWith(<<<<"N", "X">>>>)) =>
               IF Live(data0, K1, now) # None THEN SetSkipped ELSE SetWrote
        /\ lastCmd = Some(SetWith(<<<<"X", "X">>>>)) =>
               IF Live(data0, K1, now) # None THEN SetWrote ELSE SetSkipped

\* ---------------------------------------------------------------------------
\* Time to live: commands that give k an expiry, take it away or remove k,
\* TTL and PTTL asked in between, and a clock counting milliseconds.  The
\* ghost held[k] is the duration last set on k in milliseconds (-1 for
\* none), given[k] the instant that duration ends, logical the previous
\* PTTL reply since the expiry was last set.

TtlInstants == {0, 1, 2, 999, 1000, 1001, 2000}
TtlPool ==
    {[cmd |-> KeyCmd(N_SET, <<V1, <<"P", "X">>, <<"1", "0", "0", "1">>>>), kind |-> "store", ms |-> 1001],
     [cmd |-> Command(N_SETEX, <<K1, <<"2">>, V1>>), kind |-> "store", ms |-> 2000],
     [cmd |-> Command(N_PSETEX, <<K1, <<"1">>, V1>>), kind |-> "store", ms |-> 1],
     [cmd |-> KeyCmd(N_SET, <<V1>>), kind |-> "store", ms |-> -1],
     [cmd |-> KeyCmd(N_LPUSH, <<V1>>), kind |-> "push", ms |-> -1],
     [cmd |-> KeyCmd(N_EXPIRE, <<<<"1">>>>), kind |-> "touch", ms |-> 1000],
     [cmd |-> KeyCmd(N_PEXPIRE, <<<<"9", "9", "9">>>>), kind |-> "touch", ms |-> 999],
     [cmd |-> KeyCmd(N_PERSIST, <<>>), kind |-> "touch", ms |-> -1],
     [cmd |-> Command(N_DEL, <<K1>>), kind |-> "remove", ms |-> -1]}

\* k is there for the client: it was stored and its duration has not ended
Kept == K1 \in DOMAIN held /\ (held[K1] = -1 \/ now < given[K1])

InitTtl ==
    /\ overflow_checks \in BOOLEAN
    /\ data = EmptyMap /\ data0 = EmptyMap /\ now = 0
    /\ lastCmd = None /\ lastReply = None /\ lastReplyNS = None
    /\ dataNS = EmptyMap /\ given = EmptyMap /\ prevGiven = EmptyMap /\ held = EmptyMap
    /\ logical = <<>> /\ expected = None
    /\ cmd = <<>> /\ cpos = <<>> /\ reply = <<>>
    /\ IdleCodec /\ IdleSess

TtlRan(c, x) ==
    /\ lastCmd' = Some(c) /\ lastReply' = Some(x.reply) /\ data' = x.data
    /\ UNCHANGED <<overflow_checks, codecVars, now, sessVars, concVars, dataNS, lastReplyNS,
                   prevGiven>>

\* a command that sets, clears or removes the expiry of k
Expiring(it) ==
    /\ it.kind = "push" => ~Kept
    /\ TtlRan(it.cmd, execute(it.cmd, data, now))
    /\ logical' = <<>> /\ expected' = None
    /\ IF it.kind = "remove" THEN held' = EmptyMap /\ given' = EmptyMap
       ELSE IF it.kind = "touch" /\ ~Kept THEN UNCHANGED <<held, given>>
       ELSE /\ held' = (K1 :> it.ms)
            /\ given' = IF it.ms = -1 THEN EmptyMap ELSE (K1 :> now + it.ms)

Pttl ==
    /\ TtlRan(KeyCmd(N_PTTL, <<>>), execute(KeyCmd(N_PTTL, <<>>), data, now))
    /\ logical' = expected
    /\ expected' = Some(execute(KeyCmd(N_PTTL, <<>>), data, now).reply.n)
    /\ UNCHANGED <<held, given>>

Ttl ==
    /\ TtlRan(KeyCmd(N_TTL, <<>>), execute(KeyCmd(N_TTL, <<>>), data, now))
    /\ UNCHANGED <<held, given, logical, expected>>

TtlTick ==
    /\ \E t \in TtlInstants : t > now /\ now' = t
    /\ lastCmd' = None /\ lastReply' = None
    /\ UNCHANGED <<overflow_checks, codecVars, data, dataNS, lastReplyNS, given, prevGiven, held,
                   logical, expected, sessVars, concVars>>

NextTtl ==
    \/ \E it \in TtlPool : Expiring(it)
    \/ Pttl
    \/ Ttl
    \/ TtlTick

SpecTtl == InitTtl /\ [][NextTtl]_vars

Left == given[K1] - now
Told == Unwrap(lastReply).n

MostSecs == U64_MAX \div MsPerSec
Durations == {0, 1, 5, MostSecs, MostSecs + 1, U64_MAX}

Expire(s) == Counted(KeyCmd(N_EXPIRE, <<Decimal(s)>>), execute(KeyCmd(N_EXPIRE, <<Decimal(s)>>), data, now))
PExpire(ms) == Counted(KeyCmd(N_PEXPIRE, <<Decimal(ms)>>), execute(KeyCmd(N_PEXPIRE, <<Decimal(ms)>>), data, now))
Persist == Counted(KeyCmd(N_PERSIST, <<>>), execute(KeyCmd(N_PERSIST, <<>>), data, now))
SetEx(s) == Counted(SetWith(<<T_EX, Decimal(s)>>), execute(SetWith(<<T_EX, Decimal(s)>>), data, now))
SetexOf(s) ==
    Counted(Command(N_SETEX, <<K1, Decimal(s), V1>>), execute(Command(N_SETEX, <<K1, Decimal(s), V1>>), data, now))

NextExpiry ==
    \/ \E s \in Durations : Expire(s)
    \/ \E ms \in Durations : PExpire(ms)
    \/ Persist
    \/ \E s \in Durations : SetEx(s)
    \/ \E s \in Durations : SetexOf(s)

SpecExpiry == InitTyped /\ [][NextExpiry]_vars

\* the duration a command names, in its own unit
SaidDuration == Unwrap(parse_u64(Unwrap(lastCmd).args[IF LastIs({N_SET}) THEN 4 ELSE 2]))
WasLive == Live(data0, K1, now) # None
ExpiresIn(ms) ==
    IF WasLive
    THEN lastReply = Some(Integer(1)) /\ data = [data0 EXCEPT ![K1].expires_at = Some(now + ms)]
    ELSE lastReply = Some(Integer(0)) /\ data = data0
Persisted ==
    IF WasLive /\ data0[K1].expires_at # None
    THEN lastReply = Some(Integer(1)) /\ data = [data0 EXCEPT ![K1].expires_at = None]
    ELSE lastReply = Some(Integer(0)) /\ data = data0
StoredFor(ms) ==
    /\ lastReply = Some(OK)
    /\ data = Insert(data0, K1, [value |-> VString(V1), expires_at |-> Some(now + ms)])
ErrorAndNoChange == lastReply # None /\ Unwrap(lastReply).t = "Error" /\ data = data0

\* C31: EXPIRE k s and PEXPIRE k ms reply 1 and set expires_at to now plus
\* the duration exactly when k is present and not expired, and otherwise
\* reply 0 and change nothing; PERSIST k replies 1 and clears the expiry
\* exactly when k is present, not expired and has one, and otherwise
\* replies 0 and changes nothing; a key that was expired stays invisible.
C31_ExpirePersist ==
    /\ LastIs({N_EXPIRE}) => ExpiresIn(SaidDuration * MsPerSec)
    /\ LastIs({N_PEXPIRE}) => ExpiresIn(SaidDuration)
    /\ LastIs({N_PERSIST}) => Persisted
    /\ (LastIs({N_EXPIRE, N_PEXPIRE, N_PERSIST}) /\ ~WasLive) => Live(data, K1, now) = None

\* the same, for EXPIRE of a number of seconds whose milliseconds fit 64 bits
C31_ExpirePersistElsewhere ==
    /\ (LastIs({N_EXPIRE}) /\ SaidDuration <= MostSecs) => ExpiresIn(SaidDuration * MsPerSec)
    /\ LastIs({N_PEXPIRE}) => ExpiresIn(SaidDuration)
    /\ LastIs({N_PERSIST}) => Persisted
    /\ (LastIs({N_EXPIRE, N_PEXPIRE, N_PERSIST}) /\ ~WasLive) => Live(data, K1, now) = None

\* C38: for every number of seconds s that parses as an unsigned 64-bit
\* integer, SET k v EX s and SETEX k s v either store v expiring at exactly
\* now + s * 1000 ms or reply an error and change nothing, and EXPIRE k s
\* either sets that expiry on a key that is there (replying 0 on one that
\* is not) or replies an error and changes nothing.
C38_SecondsNeverWrap ==
    /\ LastIs({N_SET, N_SETEX}) => (StoredFor(SaidDuration * MsPerSec) \/ ErrorAndNoChange)
    /\ LastIs({N_EXPIRE}) => (ExpiresIn(SaidDuration * MsPerSec) \/ ErrorAndNoChange)

\* the same, for the seconds whose milliseconds fit 64 bits
C38_SecondsThatFit ==
    /\ (LastIs({N_SET, N_SETEX}) /\ SaidDuration <= MostSecs) => StoredFor(SaidDuration * MsPerSec)
    /\ (LastIs({N_EXPIRE}) /\ SaidDuration <= MostSecs) => ExpiresIn(SaidDuration * MsPerSec)

\* ---------------------------------------------------------------------------
\* Replies: one command, executed whole, among the administrative stubs,
\* commands sent with too few or too many arguments, and commands that can
\* fail, on the keyspaces above and on some where k holds a hash field that
\* is not a number or a number at the end of the 64-bit range.

ReplyKeyspaces ==
    TypedKeyspaces \cup
    {(K1 :> [value |-> VHash((<<"f">> :> <<"x">>)), expires_at |-> Some(2)]),
     (K1 :> Entry_new(VHash((<<"f">> :> Decimal(I64_MAX))))),
     (K1 :> [value |-> VString(Decimal(I64_MAX)), expires_at |-> Some(2)])}

InitReplies ==
    /\ overflow_checks \in BOOLEAN
    /\ data0 \in ReplyKeyspaces
    /\ data = data0 /\ now = 1
    /\ lastCmd = None /\ lastReply = None /\ lastReplyNS = None
    /\ dataNS = EmptyMap /\ given = EmptyMap /\ prevGiven = EmptyMap /\ held = EmptyMap
    /\ logical = <<>> /\ expected = None
    /\ cmd = <<>> /\ cpos = <<>> /\ reply = <<>>
    /\ IdleCodec /\ IdleSess

StubNames == {N_PING, N_ECHO, N_COMMAND, N_CONFIG, N_CLIENT}
StubPool ==
    {Command(N_PING, <<>>), Command(N_PING, <<K1>>), Command(N_ECHO, <<K1>>), Command(N_ECHO, <<>>),
     Command(N_COMMAND, <<>>), Command(N_COMMAND, <<<<"d", "o", "c", "s">>>>),
     Command(N_COMMAND, <<<<"c", "o", "u", "n", "t">>>>), Command(N_COMMAND, <<K1>>),
     Command(N_CONFIG, <<>>), Command(N_CONFIG, <<<<"g", "e", "t">>>>),
     Command(N_CONFIG, <<<<"G", "E", "T">>, T_SAVE>>), Command(N_CONFIG, <<<<"g", "e", "t">>, <<"*">>>>),
     Command(N_CONFIG, <<<<"g", "e", "t">>, K1>>), Command(N_CONFIG, <<<<"s", "e", "t">>, K1, V1>>),
     Command(N_CONFIG, <<K1>>),
     Command(N_CLIENT, <<>>), Command(N_CLIENT, <<<<"s", "e", "t", "n", "a", "m", "e">>, K1>>),
     Command(N_CLIENT, <<T_SETINFO, K1, V1>>), Command(N_CLIENT, <<T_GETNAME>>),
     Command(N_CLIENT, <<<<"l", "i", "s", "t">>>>), Command(N_CLIENT, <<T_ID>>),
     Command(N_CLIENT, <<K1>>)}

\* commands with fewer arguments than they need
TooFew ==
    {Command(N_GET, <<>>), Command(N_SET, <<K1>>), Command(N_DEL, <<>>), Command(N_MSET, <<K1>>),
     Command(N_MSET, <<K1, V1, K2>>), Command(N_SETEX, <<K1, <<"5">>>>), Command(N_LPUSH, <<K1>>),
     Command(N_HSET, <<K1, <<"f">>>>), Command(N_EXPIRE, <<K1>>), Command(N_RENAME, <<K1>>),
     Command(N_TYPE, <<>>), Command(N_INCRBY, <<K1>>), Command(N_LRANGE, <<K1, <<"0">>>>)}
\* commands with more arguments than they take
TooMany ==
    {Command(N_GET, <<K1, K2>>), Command(N_TYPE, <<K1, K2>>), Command(N_INCR, <<K1, K2>>),
     Command(N_STRLEN, <<K1, K2>>), Command(N_TTL, <<K1, K2>>), Command(N_DBSIZE, <<K1>>),
     Command(N_FLUSHDB, <<K1>>), Command(N_RENAME, <<K1, K2, K1>>),
     Command(N_LPOP, <<K1, K2>>), Command(N_EXPIRE, <<K1, <<"5">>, K2>>)}
FailPool ==
    TypedPool \cup
    {KeyCmd(N_INCRBY, <<<<"x">>>>), KeyCmd(N_INCRBY, <<Decimal(I64_MAX)>>),
     KeyCmd(N_HINCRBY, <<<<"f">>, <<"x">>>>), KeyCmd(N_HINCRBY, <<<<"g">>, <<"1">>>>),
     KeyCmd(N_LSET, <<<<"5">>, V1>>), KeyCmd(N_LSET, <<<<"x">>, V1>>),
     KeyCmd(N_LRANGE, <<<<"0">>, <<"x">>>>), KeyCmd(N_LINDEX, <<<<"x">>>>),
     Command(N_RENAME, <<K1, K2>>), Command(N_RENAME, <<K2, K1>>),
     Command(N_RENAMENX, <<K1, K2>>), Command(N_RENAMENX, <<K2, K1>>),
     SetWith(<<<<"B", "A", "D">>>>), SetWith(<<T_EX>>), SetWith(<<T_EX, <<"x">>>>),
     SetWith(<<T_PX, <<"5">>, <<"B", "A", "D">>>>), SetWith(<<<<"N", "X">>, <<"G", "E", "T">>>>),
     Command(N_SETEX, <<K1, <<"x">>, V1>>), Command(N_PSETEX, <<K1, <<"-", "1">>, V1>>),
     KeyCmd(N_EXPIRE, <<<<"x">>>>), KeyCmd(N_PEXPIRE, <<<<"x">>>>),
     Command(<<"F", "O", "O">>, <<K1>>), Command(N_HSET, <<K1, <<"f">>, <<"1">>, <<"g">>>>),
     Command(N_HMSET, <<K1, <<"f">>, <<"1">>, <<"g">>>>)}

Stub(c) == Counted(c, execute(c, data, now))
Miscounted(c) == Counted(c, execute(c, data, now))
Failing(c) == Counted(c, execute(c, data, now))
KeysBare ==
    \E in_order \in Arrangements(keys(data, <<"*">>, now)) :
        Counted(Command(N_KEYS, <<>>), cmd_keys(Command(N_KEYS, <<>>), data, now, in_order))

NextReplies ==
    \/ \E c \in StubPool : Stub(c)
    \/ \E c \in TooFew \cup TooMany : Miscounted(c)
    \/ KeysBare
    \/ \E c \in FailPool : Failing(c)

SpecReplies == InitReplies /\ [][NextReplies]_vars

Said == Unwrap(lastCmd)
IsErr == lastReply # None /\ Unwrap(lastReply).t = "Error"
                          /\ SubSeq(Unwrap(lastReply).s, 1, 4) = <<"E", "R", "R", " ">>
SentMiscounted == lastCmd # None /\ (Said \in TooFew \cup TooMany \/ Said = Command(N_KEYS, <<>>))

\* C32: a command sent with too few or too many arguments is answered with
\* an -ERR error and leaves the keyspace as it was.
C32_ArityRejected == SentMiscounted => (IsErr /\ data = data0)

\* the same, for the commands sent with too few arguments, KEYS apart
C32_TooFewRejected == (lastCmd # None /\ Said \in TooFew) => (IsErr /\ data = data0)

\* C33: PING replies the simple string PONG, PING msg and ECHO msg reply the
\* bulk string msg, and PING, ECHO, COMMAND, CONFIG and CLIENT leave the
\* keyspace as it was and reply what they reply on an empty keyspace.
C33_StubsStateless ==
    LastIs(StubNames) =>
        /\ data = data0
        /\ lastReply = Some(execute(Said, EmptyMap, now).reply)
        /\ Said = Command(N_PING, <<>>) => lastReply = Some(Simple(<<"P", "O", "N", "G">>))
        /\ (Said.name \in {N_PING, N_ECHO} /\ Said.args # <<>>) =>
               lastReply = Some(Bulk(Some(Said.args[1])))

\* PING k replied the bulk string k next to a keyspace holding the key k
C33_Witness ==
    /\ lastCmd = Some(Command(N_PING, <<K1>>))
    /\ lastReply = Some(Bulk(Some(K1)))
    /\ K1 \in DOMAIN data0 /\ data = data0

\* C37: a command that replied an Error frame left every key that is not
\* expired with the value, type and expires_at it had, and created no key.
C37_ErrorsChangeNothing ==
    (lastReply # None /\ Unwrap(lastReply).t = "Error") =>
        /\ \A key \in {K1, K2} : Live(data, key, now) = Live(data0, key, now)
        /\ DOMAIN data \subseteq DOMAIN data0

\* HINCRBY k f 1 failed on a field that is not a number and the hash is as it was
C37_Witness ==
    /\ lastCmd = Some(KeyCmd(N_HINCRBY, <<<<"f">>, <<"1">>>>))
    /\ lastReply = Some(Error(ERR(<<"hash value is not an integer">>)))
    /\ data = (K1 :> [value |-> VHash((<<"f">> :> <<"x">>)), expires_at |-> Some(2)])

InPlaceNames ==
    {N_LPUSH, N_RPUSH, N_LPOP, N_RPOP, N_LSET, N_SADD, N_SREM, N_HSET, N_HMSET, N_HDEL, N_HINCRBY}
ClearingNames == {N_APPEND, N_INCR, N_DECR, N_INCRBY, N_DECRBY, N_GETSET, N_SETNX, N_MSET}
\* the command wrote its string: it replied a number or the old value, and
\* SETNX replied 1
WroteString ==
    /\ lastReply # None
    /\ Unwrap(lastReply).t \in {"Integer", "Bulk", "Simple"}
    /\ LastIs({N_SETNX}) => lastReply = Some(Integer(1))

Collections ==
    {VList(<<<<"o">>>>), VList(<<<<"o">>, <<"p">>>>), VSet({<<"o">>}), VSet({<<"o">>, <<"p">>}),
     VHash((<<"f">> :> <<"0">>)), VHash((<<"f">> :> <<"0">>) @@ (<<"g">> :> <<"1">>))}
EmptiedKeyspaces ==
    {(K1 :> [value |-> v, expires_at |-> e]) @@ b :
        v \in Collections, e \in {None, Some(2)},
        b \in {EmptyMap, (K2 :> Entry_new(VString(<<"p">>)))}}

InitEmptied ==
    /\ overflow_checks \in BOOLEAN
    /\ data0 \in EmptiedKeyspaces
    /\ data = data0 /\ now = 1
    /\ lastCmd = None /\ lastReply = None /\ lastReplyNS = None
    /\ dataNS = EmptyMap /\ given = EmptyMap /\ prevGiven = EmptyMap /\ held = EmptyMap
    /\ logical = <<>> /\ expected = None
    /\ cmd = <<>> /\ cpos = <<>> /\ reply = <<>>
    /\ IdleCodec /\ IdleSess

Removers ==
    {KeyCmd(N_LPOP, <<>>), KeyCmd(N_RPOP, <<>>), KeyCmd(N_SREM, <<<<"o">>>>),
     KeyCmd(N_HDEL, <<<<"f">>>>)}
Askers ==
    {Command(N_EXISTS, <<K1>>), Command(N_TYPE, <<K1>>), Command(N_DBSIZE, <<>>),
     KeyCmd(N_INCR, <<>>), KeyCmd(N_APPEND, <<V1>>), KeyCmd(N_LPUSH, <<V1>>), KeyCmd(N_LLEN, <<>>),
     KeyCmd(N_SADD, <<V1>>), KeyCmd(N_SCARD, <<>>), KeyCmd(N_HSET, <<<<"f">>, <<"1">>>>),
     KeyCmd(N_HLEN, <<>>)}

Took(c) == Counted(c, execute(c, data, now))
Asked(c) == Probe(c)
AskedKeys ==
    \E in_order \in Arrangements(keys(data, <<"*">>, now)) :
        /\ lastCmd # None /\ expected = None
        /\ expected' = Some([cmd |-> Unwrap(lastCmd), reply |-> Unwrap(lastReply)])
        /\ lastCmd' = Some(Command(N_KEYS, <<<<"*">>>>))
        /\ lastReply' = Some(cmd_keys(Command(N_KEYS, <<<<"*">>>>), data, now, in_order).reply)
        /\ UNCHANGED <<overflow_checks, codecVars, data, now, sessVars, concVars, dataNS,
                       lastReplyNS, given, prevGiven, held, logical>>

NextEmptied ==
    \/ \E c \in Removers : Took(c)
    \/ \E c \in Askers : Asked(c)
    \/ AskedKeys

SpecEmptied == InitEmptied /\ [][NextEmptied]_vars

\* k held a collection whose last element the first command took away
WasEmptied ==
    /\ expected # None
    /\ Before.cmd \in Removers
    /\ Before.reply \in {Integer(1), Bulk(Some(<<"o">>))}
    /\ data0[K1].value \in {VList(<<<<"o">>>>), VSet({<<"o">>}), VHash((<<"f">> :> <<"0">>))}
OfFamily(ty) ==
    CASE ty = "List" -> {N_LPUSH, N_LLEN}
      [] ty = "Set"  -> {N_SADD, N_SCARD}
      [] ty = "Hash" -> {N_HSET, N_HLEN}
      [] OTHER       -> {N_INCR, N_APPEND}
FamilyAskers == {N_INCR, N_APPEND, N_LPUSH, N_LLEN, N_SADD, N_SCARD, N_HSET, N_HLEN}

\* C40: after LPOP or RPOP took the last element of a list, SREM the last
\* member of a set or HDEL the last field of a hash, the key is still there
\* with its type and its expiry: EXISTS replies 1, TYPE names the type,
\* DBSIZE counts it, KEYS lists it, and a command of another family on it
\* replies the WRONGTYPE error.
C40_EmptyCollectionsStay ==
    WasEmptied =>
        /\ K1 \in DOMAIN data /\ data[K1].expires_at = data0[K1].expires_at
        /\ LastIs({N_EXISTS}) => lastReply = Some(Integer(1))
        /\ LastIs({N_TYPE}) => lastReply = Some(Simple(TypeName(data0[K1].value.t)))
        /\ LastIs({N_DBSIZE}) => lastReply = Some(Integer(Cardinality(DOMAIN data0)))
        /\ LastIs({N_KEYS}) =>
               \E i \in 1..Len(Unwrap(Unwrap(lastReply).a)) :
                   Unwrap(Unwrap(lastReply).a)[i] = Bulk(Some(K1))
        /\ LastIs(FamilyAskers \ OfFamily(data0[K1].value.t)) => lastReply = Some(WrongTypeReply)

\* HDEL took the only field of the hash at k, and INCR k was refused
C40_Witness ==
    /\ WasEmptied
    /\ Before.cmd = KeyCmd(N_HDEL, <<<<"f">>>>)
    /\ data[K1].value = VHash(EmptyMap)
    /\ lastCmd = Some(KeyCmd(N_INCR, <<>>))
    /\ lastReply = Some(WrongTypeReply)

====
